---- MODULE Spec2Model ----
(***************************************************************************)
(* Availability prediction and trip confidence engine of the Toronto Bike  *)
(* Share dashboard (src/src/bikes.py).                                     *)
(*                                                                         *)
(* Numbers.  Net flows are Python floats with at most two decimals in the  *)
(* pattern document; they are modelled as integers counting hundredths of  *)
(* a bike per hour (-2 bikes/hour is -200).  Trip scores are modelled in   *)
(* tenths (0.6 is 6, 2.5 is 25).  Percentages are compared by cross        *)
(* multiplication.  The leave-by projection is computed in binary64        *)
(* floating point, as the code computes it.  Strings that the code formats *)
(* from numbers are sequences of one-character strings.                    *)
(***************************************************************************)
EXTENDS Integers, Sequences, FiniteSets, TLC

VARIABLES
    pc,            \* position: of a single call, or of one run of main --once
    args, ret,     \* a function called on its own: its arguments, its result
    clock,         \* the wall clock datetime.now() reads
    ticks,         \* minutes the clock has advanced
    locations,     \* the configured locations
    pattern_file,  \* what load_predictions finds on disk
    frame,         \* the local variables of get_dashboard_data
    data,          \* the result of get_dashboard_data
    panel,         \* what build_dashboard_group rendered
    calls          \* how often load_predictions and get_station_data were called

call_vars == <<args, ret>>
run_vars == <<clock, ticks, locations, pattern_file, frame, data, panel, calls>>
vars == <<pc, args, ret, clock, ticks, locations, pattern_file, frame, data, panel, calls>>

-----------------------------------------------------------------------------
(* Module-level configuration of src/src/bikes.py                          *)

NUM_NEARBY_STATIONS == 5
NUM_PREDICTION_STATIONS == 2

ABSOLUTE_BIKE_FLOOR == 5
ABSOLUTE_DOCK_FLOOR == 5

\* weights and thresholds in tenths
TRIP_BIKE_WEIGHT == 6
TRIP_DOCK_WEIGHT == 4
TRIP_HIGH_THRESHOLD == 25
TRIP_MEDIUM_THRESHOLD == 18

LEAVE_BY_BUFFER_MINUTES == 30
LEAVE_BY_MAX_HOURS == 1

DAY_NAMES == <<"mon", "tue", "wed", "thu", "fri", "sat", "sun">>
DAY_FULL_NAMES ==
    <<"Monday", "Tuesday", "Wednesday", "Thursday", "Friday", "Saturday", "Sunday">>

-----------------------------------------------------------------------------
(* Bounds of the input domains                                             *)

\* calculate_leave_by_time: bikes at the origin, and the loss rate in tenths
MaxCurrentBikes == 11
MaxLossTenths == 60

\* bikes and docks of one station
MaxBikes == 3
MaxDocks == 3

\* minutes the clock may advance during one run
MaxTicks == 2

-----------------------------------------------------------------------------
(* Python values                                                           *)

\* Optional[...]: None is the empty tuple, a present value v is <<v>>
None == <<>>
Some(v) == <<v>>

\* {} : the empty dict
EmptyDict == <<>>

\* d.get(k, default)
Get(d, k, default) == IF k \in DOMAIN d THEN d[k] ELSE default

Levels == {"HIGH", "MEDIUM", "LOW"}

\* a local variable: Op at the value of v, which is computed once
Bind(v, Op(_)) == CHOOSE r \in {Op(x) : x \in {v}} : TRUE

Min(a, b) == IF a < b THEN a ELSE b

Abs(x) == IF x < 0 THEN -x ELSE x

DigitChar(d) == <<"0", "1", "2", "3", "4", "5", "6", "7", "8", "9">>[d + 1]

\* str(n) / f"{n}" for 0 <= n <= 99
Dec(n) == IF n >= 10 THEN <<DigitChar(n \div 10), DigitChar(n % 10)>>
          ELSE <<DigitChar(n)>>

\* f"{n:02d}" for 0 <= n <= 99
Dec02(n) == <<DigitChar(n \div 10), DigitChar(n % 10)>>

\* round(x, 1) on a value counted in hundredths: nearest tenth, halves to even,
\* symmetric about zero
round1_floor(x) == (x \div 10) * 10

round1(x) ==
    LET a  == Abs(x)
        q  == a \div 10
        r  == a % 10
        up == r > 5 \/ (r = 5 /\ q % 2 = 1)
        m  == (IF up THEN q + 1 ELSE q) * 10
    IN  IF x < 0 THEN -m ELSE m

format_hour_12h(hour) ==
    IF hour = 0 THEN <<"1", "2", " ", "A", "M">>
    ELSE IF hour = 12 THEN <<"1", "2", " ", "P", "M">>
    ELSE IF hour < 12 THEN Dec(hour) \o <<" ", "A", "M">>
    ELSE Dec(hour - 12) \o <<" ", "P", "M">>

-----------------------------------------------------------------------------
(* Trip confidence aggregator                                              *)

\* scores the wrong way round: HIGH 1, MEDIUM 2, LOW 3
likelihood_to_score_inverted(likelihood) ==
    IF likelihood = "HIGH" THEN 1 ELSE IF likelihood = "MEDIUM" THEN 2 ELSE 3

\* line 519; an unknown likelihood scores 1
likelihood_to_score(likelihood) ==
    IF likelihood = "HIGH" THEN 3
    ELSE IF likelihood = "MEDIUM" THEN 2
    ELSE 1

score_to_likelihood_swapped(score) ==
    IF score >= TRIP_MEDIUM_THRESHOLD + 4 THEN "HIGH"
    ELSE IF score >= TRIP_MEDIUM_THRESHOLD THEN "MEDIUM"
    ELSE "LOW"

score_to_likelihood(score) ==
    IF score >= TRIP_HIGH_THRESHOLD THEN "HIGH"
    ELSE IF score >= TRIP_MEDIUM_THRESHOLD THEN "MEDIUM"
    ELSE "LOW"

calculate_trip_confidence_nogate(bike_likelihood, dock_likelihood) ==
    LET bike_score == likelihood_to_score(bike_likelihood)
        dock_score == likelihood_to_score(dock_likelihood)
        trip_score == (bike_score * TRIP_BIKE_WEIGHT) + (dock_score * TRIP_DOCK_WEIGHT)
    IN  score_to_likelihood(trip_score)

calculate_trip_confidence(bike_likelihood, dock_likelihood) ==
    IF bike_likelihood = "LOW" THEN "LOW"
    ELSE LET bike_score == likelihood_to_score(bike_likelihood)
             dock_score == likelihood_to_score(dock_likelihood)
             trip_score == (bike_score * TRIP_BIKE_WEIGHT) + (dock_score * TRIP_DOCK_WEIGHT)
         IN  score_to_likelihood(trip_score)

\* the rendered clock time of lines 594-604: "H:MM AM" / "H:MM PM"
format_leave_by(leave_by_hour, leave_by_minute) ==
    IF leave_by_hour = 0 THEN <<"1", "2", ":">> \o Dec02(leave_by_minute) \o <<" ", "A", "M">>
    ELSE IF leave_by_hour = 12 THEN <<"1", "2", ":">> \o Dec02(leave_by_minute) \o <<" ", "P", "M">>
    ELSE IF leave_by_hour < 12 THEN Dec(leave_by_hour) \o <<":">> \o Dec02(leave_by_minute) \o <<" ", "A", "M">>
    ELSE Dec(leave_by_hour - 12) \o <<":">> \o Dec02(leave_by_minute) \o <<" ", "P", "M">>

-----------------------------------------------------------------------------
(* Python floats (IEEE 754 binary64, round to nearest, ties to even).      *)
(* A non-negative float below 2^15 is the integer number of units of 2^-60 *)
(* it holds, written in base 2^15 with the least significant limb first:   *)
(* limbs 1..4 are the fraction, limbs 5..6 the integer part.               *)

BASE == 2^15

\* the limbs of a count given by raw limb values that may lie outside 0..BASE-1
carry(r1, r2, r3, r4, r5, r6) ==
    LET v2 == r2 + (r1 \div BASE)
        v3 == r3 + (v2 \div BASE)
        v4 == r4 + (v3 \div BASE)
        v5 == r5 + (v4 \div BASE)
        v6 == r6 + (v5 \div BASE)
    IN  <<r1 % BASE, v2 % BASE, v3 % BASE, v4 % BASE, v5 % BASE, v6 % BASE>>

\* float(n) for an int 0 <= n < 2^30
fl_int(n) == <<0, 0, 0, 0, n % BASE, n \div BASE>>

\* the integer n as a count of units
fl_units(n) == <<n % BASE, n \div BASE, 0, 0, 0, 0>>

fl_add(x, y) ==
    carry(x[1] + y[1], x[2] + y[2], x[3] + y[3], x[4] + y[4], x[5] + y[5], x[6] + y[6])

\* x - y for x >= y
fl_sub(x, y) ==
    carry(x[1] - y[1], x[2] - y[2], x[3] - y[3], x[4] - y[4], x[5] - y[5], x[6] - y[6])

fl_times(x, k) == carry(x[1] * k, x[2] * k, x[3] * k, x[4] * k, x[5] * k, x[6] * k)

fl_double(x, bit) ==
    carry(2 * x[1] + bit, 2 * x[2], 2 * x[3], 2 * x[4], 2 * x[5], 2 * x[6])

fl_halve(x) ==
    LET half(i) == (x[i] \div 2) + (IF i < 6 THEN (x[i + 1] % 2) * (BASE \div 2) ELSE 0)
    IN  <<half(1), half(2), half(3), half(4), half(5), half(6)>>

RECURSIVE fl_geq_from(_, _, _)
fl_geq_from(x, y, i) ==
    IF i = 0 THEN TRUE
    ELSE IF x[i] # y[i] THEN x[i] > y[i]
    ELSE fl_geq_from(x, y, i - 1)

\* x >= y
fl_geq(x, y) == fl_geq_from(x, y, 6)

\* 2^53 units: the first count that needs more than 53 significant bits
TwoTo53 == <<0, 0, 0, 2^8, 0, 0>>

\* x * 2^n
RECURSIVE fl_shift_left(_, _)
fl_shift_left(x, n) ==
    IF n >= 15 THEN fl_shift_left(<<0, x[1], x[2], x[3], x[4], x[5]>>, n - 15)
    ELSE fl_times(x, 2^n)

\* rounding of the exact count x (plus a nonzero part below one unit when
\* sticky) to 53 significant bits, halves to even
RECURSIVE fl_round_from(_, _, _, _)
fl_round_from(x, guard, sticky, shifts) ==
    IF ~fl_geq(x, TwoTo53)
    THEN LET up == guard /\ (sticky \/ x[1] % 2 = 1)
         IN  Bind(IF up THEN fl_add(x, fl_units(1)) ELSE x,
                  LAMBDA rounded : fl_shift_left(rounded, shifts))
    ELSE Bind(<<fl_halve(x), x[1] % 2 = 1, sticky \/ guard, shifts + 1>>,
              LAMBDA h : fl_round_from(h[1], h[2], h[3], h[4]))

fl_round(x, sticky) == Bind(<<x, sticky>>, LAMBDA v : fl_round_from(v[1], FALSE, v[2], 0))

\* 2^54 units: a quotient this long holds the 53 bits and the rounding bit
TwoTo54 == <<0, 0, 0, 2^9, 0, 0>>

\* one step of long division by the count den: the next bit of the numerator
\* is brought down to the remainder qr[2] and the quotient qr[1] gets a bit
fl_divide_bit(qr, bit, den) ==
    Bind(qr, LAMBDA v :
    Bind(fl_double(v[2], bit), LAMBDA r2 :
        IF fl_geq(r2, den) THEN <<fl_double(v[1], 1), fl_sub(r2, den)>>
        ELSE <<fl_double(v[1], 0), r2>>))

\* long division of num * 2^shift by the count den, five bits at a time from
\* the top, for num < 2^10 and shift a multiple of 5, with k bits still to
\* take; it stops once the quotient is long enough to be rounded.  The result
\* is <<quotient, remainder, k>>.
RECURSIVE fl_divide_from(_, _, _, _, _)
fl_divide_from(num, shift, den, k, qr) ==
    IF k = 0 \/ fl_geq(qr[1], TwoTo54) THEN <<qr[1], qr[2], k>>
    ELSE LET bits == IF k > shift THEN (num \div 2^(k - shift - 5)) % 32 ELSE 0
             s1 == fl_divide_bit(qr, (bits \div 16) % 2, den)
             s2 == fl_divide_bit(s1, (bits \div 8) % 2, den)
             s3 == fl_divide_bit(s2, (bits \div 4) % 2, den)
             s4 == fl_divide_bit(s3, (bits \div 2) % 2, den)
         IN  Bind(fl_divide_bit(s4, bits % 2, den),
                  LAMBDA s5 : fl_divide_from(num, shift, den, k - 5, s5))

\* the float nearest to num * 2^shift / den, in units
fl_divide(num, shift, den) ==
    Bind(fl_divide_from(num, shift, den, shift + 10, <<fl_units(0), fl_units(0)>>), LAMBDA d :
    Bind(fl_round(d[1], d[2] # fl_units(0)), LAMBDA q : fl_shift_left(q, d[3])))

\* the float nearest to hundredths / 100, for 0 < hundredths < 2^10: how a net
\* flow with at most two decimals is held
fl_hundredths(hundredths) == fl_divide(hundredths, 60, fl_units(100))

\* int / float, for 0 < n < 2^10 and a float y > 0
fl_int_over(n, y) == fl_divide(n, 120, y)

\* float * int
fl_mul_int(x, k) == Bind(x, LAMBDA v : fl_round(fl_times(v, k), FALSE))

\* int(x) of a float
fl_floor(x) == x[5] + x[6] * BASE

-----------------------------------------------------------------------------
(* Leave-by projection                                                     *)

\* the float abs(net_flow_bikes) of line 570, for a net flow given in
\* hundredths of a bike per hour
loss_rate_float(hundredths) == fl_hundredths(hundredths)

\* (bikes_above_floor / loss_rate) * 60 of lines 574 and 578
hours_until_floor_times_60(bikes_above_floor, loss_rate) ==
    Bind(fl_int_over(bikes_above_floor, loss_rate),
         LAMBDA hours_until_floor : fl_mul_int(hours_until_floor, 60))

\* the two of them over the input domain, computed once
LossRateTable == [n \in {10 * t : t \in 1..MaxLossTenths} |-> loss_rate_float(n)]

MinutesTable ==
    [a \in 1..(MaxCurrentBikes - ABSOLUTE_BIKE_FLOOR), n \in DOMAIN LossRateTable
        |-> hours_until_floor_times_60(a, LossRateTable[n])]

minutes_until_floor(bikes_above_floor, hundredths) ==
    IF <<bikes_above_floor, hundredths>> \in DOMAIN MinutesTable
    THEN MinutesTable[bikes_above_floor, hundredths]
    ELSE Bind(loss_rate_float(hundredths),
              LAMBDA loss_rate : hours_until_floor_times_60(bikes_above_floor, loss_rate))

\* the horizon test with >= for >
leave_by_too_far_strict(minutes_until_leave_by) ==
    fl_geq(minutes_until_leave_by, fl_int(LEAVE_BY_MAX_HOURS * 60))

\* the horizon test left out
leave_by_too_far_never(minutes_until_leave_by) == FALSE

\* minutes_until_leave_by > LEAVE_BY_MAX_HOURS * 60
leave_by_too_far(minutes_until_leave_by) ==
    ~fl_geq(fl_int(LEAVE_BY_MAX_HOURS * 60), minutes_until_leave_by)

\* net_flow_bikes is in hundredths of a bike per hour
calculate_leave_by_time(current_bikes, net_flow_bikes, current_hour, current_minute) ==
    IF net_flow_bikes >= 0 THEN None
    ELSE LET bikes_above_floor == current_bikes - ABSOLUTE_BIKE_FLOOR IN
    IF bikes_above_floor <= 0 THEN None
    ELSE LET loss_rate == Abs(net_flow_bikes) IN
    IF loss_rate = 0 THEN None
    ELSE LET current_time_minutes == current_hour * 60 + current_minute IN
    Bind(minutes_until_floor(bikes_above_floor, loss_rate), LAMBDA minutes :
    Bind(fl_round(fl_add(fl_int(current_time_minutes), minutes), FALSE),
         LAMBDA depletion_time_minutes :
    \* leave_by_minutes is negative, hence not after the current time
    IF ~fl_geq(depletion_time_minutes, fl_int(LEAVE_BY_BUFFER_MINUTES)) THEN None
    ELSE
    Bind(fl_round(fl_sub(depletion_time_minutes, fl_int(LEAVE_BY_BUFFER_MINUTES)), FALSE),
         LAMBDA leave_by_minutes :
    IF fl_geq(fl_int(current_time_minutes), leave_by_minutes) THEN None
    ELSE
    Bind(fl_round(fl_sub(leave_by_minutes, fl_int(current_time_minutes)), FALSE),
         LAMBDA minutes_until_leave_by :
    IF leave_by_too_far(minutes_until_leave_by) THEN None
    ELSE LET leave_by_hour   == (fl_floor(leave_by_minutes) \div 60) % 24
             leave_by_minute == fl_floor(leave_by_minutes) % 60
         IN  Some(format_leave_by(leave_by_hour, leave_by_minute))))))

get_trip_message_leave_first(trip_confidence, bike_likelihood, dock_likelihood, leave_by_time, is_morning) ==
    LET destination == IF is_morning THEN "work" ELSE "home" IN
    IF leave_by_time # None THEN <<"Safe to bike, but leave by ", leave_by_time[1]>>
    ELSE IF trip_confidence = "LOW" THEN <<"Consider transit/walking">>
    ELSE IF trip_confidence = "HIGH" THEN <<"Safe to bike">>
    ELSE IF bike_likelihood = "HIGH" /\ dock_likelihood = "LOW"
         THEN <<"Docks may be tight at ", destination>>
    ELSE <<"Safe to bike">>

\* the f-strings are kept as <<literal part, substituted value>>
get_trip_message(trip_confidence, bike_likelihood, dock_likelihood, leave_by_time, is_morning) ==
    LET destination == IF is_morning THEN "work" ELSE "home" IN
    IF trip_confidence = "LOW" THEN <<"Consider transit/walking">>
    ELSE IF trip_confidence = "HIGH" THEN <<"Safe to bike">>
    ELSE IF bike_likelihood = "HIGH" /\ dock_likelihood = "LOW"
         THEN <<"Docks may be tight at ", destination>>
    ELSE IF leave_by_time # None THEN <<"Safe to bike, but leave by ", leave_by_time[1]>>
    ELSE <<"Safe to bike">>

-----------------------------------------------------------------------------
(* Availability classifier                                                 *)

\* str(hour): the hour keys of the pattern document
hour_str(hour) == Dec(hour)

\* truthiness of a dict or of None
Truthy(d) == DOMAIN d # {}

\* a lookup that defaults to 1 bike an hour
net_flow_lookup_default_one(pattern, day_name, hour) ==
    Get(Get(Get(pattern, "net_flow", EmptyDict), day_name, EmptyDict), hour_str(hour), 100)

\* pattern.get("net_flow", {}).get(day_name, {}).get(str(hour), 0)
net_flow_lookup(pattern, day_name, hour) ==
    Get(Get(Get(pattern, "net_flow", EmptyDict), day_name, EmptyDict), hour_str(hour), 0)

\* a slice that keeps the whole list
Take_all(seq, n) == seq

\* nearby_stations[:n]
Take(seq, n) == SubSeq(seq, 1, Min(n, Len(seq)))

RECURSIVE sum_field(_, _)
sum_field(stations, field) ==
    IF Len(stations) = 0 THEN 0
    ELSE stations[1][field] + sum_field(Tail(stations), field)

\* lines 360-366: the running total_net_flow_bikes over the prediction stations
RECURSIVE sum_net_flow(_, _, _, _)
sum_net_flow(stations, patterns, day_name, hour) ==
    IF Len(stations) = 0 THEN 0
    ELSE (IF stations[1].id \in DOMAIN patterns
          THEN net_flow_lookup(patterns[stations[1].id], day_name, hour)
          ELSE 0)
         + sum_net_flow(Tail(stations), patterns, day_name, hour)

\* lines 360-366: total_net_flow_docks, decremented by the same lookups
RECURSIVE sum_net_flow_docks(_, _, _, _)
sum_net_flow_docks(stations, patterns, day_name, hour) ==
    IF Len(stations) = 0 THEN 0
    ELSE (IF stations[1].id \in DOMAIN patterns
          THEN 0 - net_flow_lookup(patterns[stations[1].id], day_name, hour)
          ELSE 0)
         + sum_net_flow_docks(Tail(stations), patterns, day_name, hour)

\* lines 368-379: the list bike_depletion_warnings
RECURSIVE collect_depletion_warnings(_, _, _, _)
collect_depletion_warnings(stations, patterns, day_name, hour) ==
    IF Len(stations) = 0 THEN <<>>
    ELSE LET station == stations[1]
             rest == collect_depletion_warnings(Tail(stations), patterns, day_name, hour)
             depletion == IF station.id \in DOMAIN patterns
                          THEN Get(Get(patterns[station.id], "depletion_risk", EmptyDict),
                                   day_name, None)
                          ELSE None
         IN  IF Truthy(depletion)
                /\ 0 < depletion.hour - hour
                /\ depletion.hour - hour <= 4
                /\ depletion.severity > 15
             THEN <<[station |-> station.name, hour |-> depletion.hour,
                     severity |-> depletion.severity]>> \o rest
             ELSE rest

\* the first warning collected
earliest_warning_first(warnings) == warnings[1]

\* min(bike_depletion_warnings, key=lambda x: x["hour"]): first minimal element
earliest_warning(warnings) ==
    LET i == CHOOSE i \in 1..Len(warnings) :
                 /\ \A j \in 1..Len(warnings) : warnings[i].hour <= warnings[j].hour
                 /\ \A j \in 1..(i - 1) : warnings[j].hour > warnings[i].hour
    IN  warnings[i]

\* a scan that starts at the current hour
first_heavy_hour_from_now(pattern, day_name, hour) ==
    LET heavy == {h \in hour..(Min(hour + 5, 24) - 1) :
                      net_flow_lookup(pattern, day_name, h) > 800}
    IN  IF heavy = {} THEN None
        ELSE Some(CHOOSE h \in heavy : \A g \in heavy : h <= g)

\* lines 431-435: the inner loop over future hours, left at its first match
first_heavy_hour(pattern, day_name, hour) ==
    LET heavy == {h \in (hour + 1)..(Min(hour + 5, 24) - 1) :
                      net_flow_lookup(pattern, day_name, h) > 800}
    IN  IF heavy = {} THEN None
        ELSE Some(CHOOSE h \in heavy : \A g \in heavy : h <= g)

\* lines 426-435: the outer loop over stations; a later station's match
\* overwrites dock_warning
RECURSIVE fill_scan(_, _, _, _, _)
fill_scan(stations, patterns, day_name, hour, dock_warning) ==
    IF Len(stations) = 0 THEN dock_warning
    ELSE LET found == IF stations[1].id \in DOMAIN patterns
                      THEN first_heavy_hour(patterns[stations[1].id], day_name, hour)
                      ELSE None
         IN  fill_scan(Tail(stations), patterns, day_name, hour,
                       IF found # None THEN found ELSE dock_warning)

\* a percentage without the capacity guard, taken as unbounded at capacity 0
pct_at_least_unguarded(total, total_capacity, threshold) ==
    IF total_capacity > 0 THEN total * 100 >= threshold * total_capacity
    ELSE TRUE

\* pct >= threshold for pct = (total / total_capacity * 100) if total_capacity > 0 else 0
pct_at_least(total, total_capacity, threshold) ==
    IF total_capacity > 0 THEN total * 100 >= threshold * total_capacity
    ELSE 0 >= threshold

\* lines 390-395 and 403-408, before the floor
pct_likelihood_no_trend(total, total_capacity, net_flow) ==
    IF pct_at_least(total, total_capacity, 40) THEN "HIGH"
    ELSE IF pct_at_least(total, total_capacity, 25)
            \/ (pct_at_least(total, total_capacity, 15) /\ net_flow > 0) THEN "MEDIUM"
    ELSE "LOW"

pct_likelihood_not_falling(total, total_capacity, net_flow) ==
    IF pct_at_least(total, total_capacity, 40) /\ net_flow >= -200 THEN "HIGH"
    ELSE IF pct_at_least(total, total_capacity, 25)
            \/ (pct_at_least(total, total_capacity, 15) /\ net_flow >= 0) THEN "MEDIUM"
    ELSE "LOW"

pct_likelihood(total, total_capacity, net_flow) ==
    IF pct_at_least(total, total_capacity, 40) /\ net_flow >= -200 THEN "HIGH"
    ELSE IF pct_at_least(total, total_capacity, 25)
            \/ (pct_at_least(total, total_capacity, 15) /\ net_flow > 0) THEN "MEDIUM"
    ELSE "LOW"

\* lines 399-400 and 411-412
apply_floor_any(likelihood, total, floor) ==
    IF total >= floor THEN "MEDIUM" ELSE likelihood

\* a floor that lifts LOW whatever the count
apply_floor_always(likelihood, total, floor) ==
    IF likelihood = "LOW" THEN "MEDIUM" ELSE likelihood

\* a floor that lifts LOW to HIGH
apply_floor_to_high(likelihood, total, floor) ==
    IF total >= floor /\ likelihood = "LOW" THEN "HIGH" ELSE likelihood

\* no floor at all
apply_floor_never(likelihood, total, floor) == likelihood

apply_floor(likelihood, total, floor) ==
    IF total >= floor /\ likelihood = "LOW" THEN "MEDIUM" ELSE likelihood

\* now is the value of datetime.now() read at line 334
get_prediction_for_stations(nearby_stations, predictions, now) ==
    IF ~Truthy(predictions) \/ "patterns" \notin DOMAIN predictions THEN None
    ELSE
    LET patterns == predictions["patterns"]
        day_name == DAY_NAMES[now.weekday + 1]
        day_full == DAY_FULL_NAMES[now.weekday + 1]
        hour == now.hour
        prediction_stations == Take(nearby_stations, NUM_PREDICTION_STATIONS)
        total_bikes == sum_field(prediction_stations, "bikes_available")
        total_docks == sum_field(prediction_stations, "docks_available")
        total_capacity == sum_field(prediction_stations, "capacity")
        total_net_flow_bikes == sum_net_flow(prediction_stations, patterns, day_name, hour)
        total_net_flow_docks == sum_net_flow_docks(prediction_stations, patterns, day_name, hour)
        bike_depletion_warnings ==
            collect_depletion_warnings(prediction_stations, patterns, day_name, hour)
        bike_likelihood ==
            apply_floor(pct_likelihood(total_bikes, total_capacity, total_net_flow_bikes),
                        total_bikes, ABSOLUTE_BIKE_FLOOR)
        dock_likelihood ==
            apply_floor(pct_likelihood(total_docks, total_capacity, total_net_flow_docks),
                        total_docks, ABSOLUTE_DOCK_FLOOR)
        bike_warning ==
            IF Len(bike_depletion_warnings) > 0
            THEN Some(<<"Often runs low by ",
                        format_hour_12h(earliest_warning(bike_depletion_warnings).hour),
                        " on ", day_full, "s">>)
            ELSE None
        fill_hour ==
            IF total_net_flow_bikes > 500
            THEN fill_scan(prediction_stations, patterns, day_name, hour, None)
            ELSE None
        dock_warning ==
            IF fill_hour # None
            THEN Some(<<"Fills up around ", format_hour_12h(fill_hour[1]),
                        " on ", day_full, "s">>)
            ELSE None
    IN  Some([bike_likelihood |-> bike_likelihood,
              dock_likelihood |-> dock_likelihood,
              bike_warning    |-> bike_warning,
              dock_warning    |-> dock_warning,
              net_flow_bikes  |-> round1(total_net_flow_bikes),
              net_flow_docks  |-> round1(total_net_flow_docks),
              day             |-> day_full,
              hour            |-> hour])

-----------------------------------------------------------------------------
(* Geospatial locator                                                      *)

\* great-circle distance in meters between two points of the same longitude
\* whose latitudes are given in thousandths of a degree (111 m each)
haversine_distance(lat1, lon1, lat2, lon2) == 111 * Abs(lat2 - lat1)

\* list.sort(key=distance) is stable: an entry goes behind those not farther
RECURSIVE insert_by_distance(_, _)
insert_by_distance(sorted, entry) ==
    IF Len(sorted) = 0 THEN <<entry>>
    ELSE IF sorted[1].distance <= entry.distance
         THEN <<sorted[1]>> \o insert_by_distance(Tail(sorted), entry)
    ELSE <<entry>> \o sorted

RECURSIVE sort_by_distance(_, _)
sort_by_distance(entries, sorted) ==
    IF Len(entries) = 0 THEN sorted
    ELSE sort_by_distance(Tail(entries), insert_by_distance(sorted, entries[1]))

\* every station taken as in service
is_in_service_any(status) == TRUE

\* line 298: status.get("status") is "IN_SERVICE"
is_in_service(status) == Get(status, "status", "") = "IN_SERVICE"

\* lines 291-318; stations_info is the feed's list in its order, stations_status
\* a dict by station id
RECURSIVE stations_with_distance(_, _, _, _)
stations_with_distance(target_lat, target_lon, stations_info, stations_status) ==
    IF Len(stations_info) = 0 THEN <<>>
    ELSE LET info == stations_info[1]
             rest == stations_with_distance(target_lat, target_lon,
                                            Tail(stations_info), stations_status)
         IN  IF info.station_id \notin DOMAIN stations_status THEN rest
             ELSE LET status == stations_status[info.station_id] IN
             IF ~ is_in_service(status) THEN rest
             ELSE <<[id |-> info.station_id,
                     name |-> info.name,
                     capacity |-> Get(info, "capacity", 0),
                     bikes_available |-> Get(status, "num_bikes_available", 0),
                     docks_available |-> Get(status, "num_docks_available", 0),
                     distance |-> haversine_distance(target_lat, target_lon,
                                                     info.lat, info.lon)]>> \o rest

\* the eligible stations in feed order, cut to the first num_stations
find_nearby_stations_unsorted(target_lat, target_lon, stations_info, stations_status, num_stations) ==
    Take(stations_with_distance(target_lat, target_lon, stations_info, stations_status),
         num_stations)

find_nearby_stations(target_lat, target_lon, stations_info, stations_status, num_stations) ==
    Take(sort_by_distance(stations_with_distance(target_lat, target_lon,
                                                 stations_info, stations_status), <<>>),
         num_stations)

-----------------------------------------------------------------------------
(* Dashboard                                                               *)

\* an absent likelihood taken as MEDIUM
prediction_get_medium(prediction, key, default) ==
    IF prediction # None THEN Get(prediction[1], key, default)
    ELSE IF key = "net_flow_bikes" THEN default ELSE "MEDIUM"

\* prediction.get(key, default) if prediction else default
prediction_get(prediction, key, default) ==
    IF prediction # None THEN Get(prediction[1], key, default) ELSE default

\* lines 752-772 and 785-790: the text of the trip panel; now is the clock
\* read at line 752
create_trip_summary(origin_prediction, destination_prediction, origin_bikes, is_morning, now) ==
    LET bike_likelihood == prediction_get(origin_prediction, "bike_likelihood", "LOW")
        dock_likelihood == prediction_get(destination_prediction, "dock_likelihood", "LOW")
        net_flow_bikes  == prediction_get(origin_prediction, "net_flow_bikes", 0)
        trip_confidence == calculate_trip_confidence(bike_likelihood, dock_likelihood)
        leave_by_time   == calculate_leave_by_time(origin_bikes, net_flow_bikes,
                                                   now.hour, now.minute)
        message == get_trip_message(trip_confidence, bike_likelihood, dock_likelihood,
                                    leave_by_time, is_morning)
    IN  [confidence |-> trip_confidence,
         message    |-> message,
         direction  |-> IF is_morning THEN "Home -> Work" ELSE "Work -> Home"]

\* lines 982-1001: the error text, or the trip panel
build_dashboard_group(d, now) ==
    IF "error" \in DOMAIN d THEN [error |-> d.error]
    ELSE LET origin_name == d.direction.from
             destination_name == d.direction.to
         IN  [trip_panel |->
                  create_trip_summary(d.locations[origin_name].prediction,
                                      d.locations[destination_name].prediction,
                                      d.locations[origin_name].total_bikes,
                                      d.is_morning, now)]

-----------------------------------------------------------------------------
(* Input domains                                                           *)


Hours == 0..23
Minutes == {0, 1, 30, 59}

\* some rendered leave-by times
SampleTimes == {format_leave_by(8, 30), format_leave_by(0, 5)}

TripConfidenceArgs ==
    [fn : {"calculate_trip_confidence"}, bike_likelihood : Levels, dock_likelihood : Levels]

TripMessageArgs ==
    [fn : {"get_trip_message"}, trip_confidence : Levels, bike_likelihood : Levels,
     dock_likelihood : Levels, leave_by_time : {None} \cup {Some(t) : t \in SampleTimes},
     is_morning : BOOLEAN]

\* net flows in tenths of a bike per hour, as round(..., 1) leaves them
LeaveByArgs ==
    [fn : {"calculate_leave_by_time"}, current_bikes : 0..MaxCurrentBikes,
     net_flow_bikes : {10 * n : n \in (-MaxLossTenths)..1},
     current_hour : Hours, current_minute : Minutes]

\* the feed's stations: ids and names by rank of distance
StationIds == <<"7000", "7001", "7002">>
StationNames == <<"Fort York Blvd", "Bathurst St", "Wellington St W">>
Capacities == {0, 5, 20}

\* an entry of find_nearby_stations' result (the fields the engine reads)
Station(i, bikes, docks, capacity) ==
    [id |-> StationIds[i], name |-> StationNames[i], capacity |-> capacity,
     bikes_available |-> bikes, docks_available |-> docks, distance |-> 100 * i]

StationsAt(i) ==
    {Station(i, b, d, c) : b \in 0..MaxBikes, d \in 0..MaxDocks, c \in Capacities}

\* a third nearby station, beyond the prediction stations
NearbyLists ==
    {<<>>} \cup {<<s1>> : s1 \in StationsAt(1)}
    \cup {<<s1, s2>> : s1 \in StationsAt(1), s2 \in StationsAt(2)}
    \cup {<<s1, s2, Station(3, 3, 3, 5)>> :
              s1 \in {s \in StationsAt(1) : s.docks_available = 0},
              s2 \in {s \in StationsAt(2) : s.docks_available = 0}}

\* net flows of the pattern document, in hundredths of a bike per hour
FlowVals == {-204, -100, 0, 100, 504}

HourKeys == {hour_str(h) : h \in Hours}

\* a station's pattern with the same net flow at every hour of Monday
FlatPattern(f) ==
    [net_flow |-> [d \in {"mon"} |-> [k \in HourKeys |-> f]],
     depletion_risk |-> EmptyDict]

\* strong inflow with a heavier hour at 10, and a Monday depletion event
PeakPattern ==
    [net_flow |-> [d \in {"mon"} |->
                      [k \in HourKeys |-> IF k = hour_str(10) THEN 900 ELSE 504]],
     depletion_risk |-> [d \in {"mon"} |-> [hour |-> 10, severity |-> 20]]]

\* a pattern without net flows
RiskOnlyPattern ==
    [depletion_risk |-> [d \in {"mon"} |-> [hour |-> 9, severity |-> 16]]]

\* the peak pattern without the entry of hour 8
GapPattern ==
    [net_flow |-> [d \in {"mon"} |->
                      [k \in HourKeys \ {hour_str(8)} |->
                          IF k = hour_str(10) THEN 900 ELSE 504]],
     depletion_risk |-> [d \in {"mon"} |-> [hour |-> 10, severity |-> 20]]]

PatternSet ==
    {FlatPattern(f) : f \in FlowVals} \cup {PeakPattern, RiskOnlyPattern, GapPattern}

\* the third station never has history
PatternMaps == UNION {[S -> PatternSet] : S \in SUBSET {StationIds[1], StationIds[2]}}

Metadata == [data_source |-> "Toronto Bike Share Ridership 2024 (Jan-Sep)"]

PatternDocs == {[metadata |-> Metadata, patterns |-> m] : m \in PatternMaps}

\* load_predictions' results: no file, a document without patterns, a document
PredictionDocs == {None, [metadata |-> Metadata]} \cup PatternDocs

\* Monday 8:00 and Tuesday 8:00
ClassifyNows == {[weekday |-> 0, hour |-> 8, minute |-> 0],
                 [weekday |-> 1, hour |-> 8, minute |-> 0]}

ClassifyArgs ==
    [fn : {"get_prediction_for_stations"}, nearby_stations : NearbyLists,
     predictions : PredictionDocs, now : ClassifyNows]

\* both directions taken as the morning one
trip_direction_morning_only(is_morning) == [from |-> "Home", to |-> "Work"]

\* lines 885-890: origin_name and destination_name
trip_direction(is_morning) ==
    IF is_morning THEN [from |-> "Home", to |-> "Work"]
    ELSE [from |-> "Work", to |-> "Home"]

\* the configuration: the setup wizard's keys, or a file lacking one of them
HomeWork == [Home |-> [lat |-> 0, lon |-> 0], Work |-> [lat |-> 10, lon |-> 0]]
HomeOnly == [Home |-> [lat |-> 0, lon |-> 0]]

\* dict order of the configured locations
location_keys(locs) == SelectSeq(<<"Home", "Work">>, LAMBDA k : k \in DOMAIN locs)

\* station_information: three stations between Home and Work, the one next
\* to Home a large one
FeedInfo ==
    <<[station_id |-> StationIds[1], name |-> StationNames[1], lat |-> 1, lon |-> 0,
       capacity |-> 40],
      [station_id |-> StationIds[2], name |-> StationNames[2], lat |-> 4, lon |-> 0,
       capacity |-> 10],
      [station_id |-> StationIds[3], name |-> StationNames[3], lat |-> 9, lon |-> 0,
       capacity |-> 10]>>

\* station_status of one station
FeedStatus ==
    [status : {"IN_SERVICE", "END_OF_LIFE"},
     num_bikes_available : {0, 4}, num_docks_available : {0, 4}]

FeedSnapshots ==
    [stations_info : {FeedInfo},
     stations_status : [{StationIds[1], StationIds[2], StationIds[3]} -> FeedStatus]]

\* pattern documents of the dashboard runs: the first two stations drain by 1
\* bike an hour and the last is balanced; or the first drains faster and the
\* last one fills up
DrainDoc ==
    [metadata |-> Metadata,
     patterns |-> (StationIds[1] :> FlatPattern(-100)) @@ (StationIds[2] :> FlatPattern(-100))
                  @@ (StationIds[3] :> FlatPattern(0))]

MixedDoc ==
    [metadata |-> Metadata,
     patterns |-> (StationIds[1] :> FlatPattern(-204)) @@ (StationIds[2] :> FlatPattern(-100))
                  @@ (StationIds[3] :> PeakPattern)]

\* a document without the "patterns" key
NoPatternsDoc == [metadata |-> Metadata]

PatternFiles == {None, NoPatternsDoc, DrainDoc, MixedDoc}

\* Monday morning, just before noon, afternoon, and just before midnight
StartClocks ==
    {[weekday |-> 0, hour |-> 8, minute |-> 0], [weekday |-> 0, hour |-> 11, minute |-> 59],
     [weekday |-> 0, hour |-> 17, minute |-> 30], [weekday |-> 0, hour |-> 23, minute |-> 59]}

NoFrame == EmptyDict

NoCalls == [load_predictions |-> 0, get_station_data |-> 0]

\* no dashboard run is going on
RunIdle ==
    /\ clock = [weekday |-> 0, hour |-> 0, minute |-> 0]
    /\ ticks = 0
    /\ locations = HomeWork
    /\ pattern_file = None
    /\ frame = NoFrame
    /\ data = None
    /\ panel = None
    /\ calls = NoCalls

-----------------------------------------------------------------------------
(* The aggregator's functions, called on their own                         *)

InitTrip ==
    /\ RunIdle
    /\ pc = "call"
    /\ args \in TripConfidenceArgs \cup TripMessageArgs
    /\ ret = None

CallTripConfidence ==
    /\ pc = "call"
    /\ args.fn = "calculate_trip_confidence"
    /\ ret' = calculate_trip_confidence(args.bike_likelihood, args.dock_likelihood)
    /\ pc' = "done"
    /\ UNCHANGED <<args, run_vars>>

CallTripMessage ==
    /\ pc = "call"
    /\ args.fn = "get_trip_message"
    /\ ret' = get_trip_message(args.trip_confidence, args.bike_likelihood,
                               args.dock_likelihood, args.leave_by_time, args.is_morning)
    /\ pc' = "done"
    /\ UNCHANGED <<args, run_vars>>

NextTrip == CallTripConfidence \/ CallTripMessage

SpecTrip == InitTrip /\ [][NextTrip]_vars

InitLeaveBy ==
    /\ RunIdle
    /\ pc = "call"
    /\ args \in LeaveByArgs
    /\ ret = None

CallLeaveBy ==
    /\ pc = "call"
    /\ args.fn = "calculate_leave_by_time"
    /\ ret' = calculate_leave_by_time(args.current_bikes, args.net_flow_bikes,
                                      args.current_hour, args.current_minute)
    /\ pc' = "done"
    /\ UNCHANGED <<args, run_vars>>

NextLeaveBy == CallLeaveBy

SpecLeaveBy == InitLeaveBy /\ [][NextLeaveBy]_vars

-----------------------------------------------------------------------------
(* One run of the dashboard: main --once                                   *)

Init ==
    /\ pc = "start"
    /\ args = None
    /\ ret = None
    /\ clock \in StartClocks
    /\ ticks = 0
    /\ locations \in {HomeWork, HomeOnly}
    /\ pattern_file \in PatternFiles
    /\ frame = NoFrame
    /\ data = None
    /\ panel = None
    /\ calls = NoCalls

\* the wall clock a minute later
minute_later(c) ==
    IF c.minute < 59 THEN [c EXCEPT !.minute = @ + 1]
    ELSE IF c.hour < 23 THEN [c EXCEPT !.minute = 0, !.hour = @ + 1]
    ELSE [weekday |-> (c.weekday + 1) % 7, hour |-> 0, minute |-> 0]

\* the wall clock moves on by a minute while the run is under way
Tick ==
    /\ pc \in {"start", "locate", "returned"}
    /\ ticks < MaxTicks
    /\ ticks' = ticks + 1
    /\ clock' = minute_later(clock)
    /\ UNCHANGED <<pc, call_vars, locations, pattern_file, frame, data, panel, calls>>

\* get_dashboard_data, lines 871-894: load the patterns, fetch the feeds, read
\* the clock, choose the direction, check the configuration; snapshots is what
\* the feeds may answer
FetchFrom(snapshots) ==
    /\ pc = "start"
    /\ calls' = [load_predictions |-> calls.load_predictions + 1,
                 get_station_data |-> calls.get_station_data + 1]
    /\ \E ok \in BOOLEAN, snapshot \in snapshots :
          IF ~ok
          THEN /\ data' = Some([error |-> "Error fetching data"])
               /\ pc' = "returned"
               /\ UNCHANGED frame
          ELSE IF "Home" \notin DOMAIN locations \/ "Work" \notin DOMAIN locations
          THEN /\ data' = Some([error |-> "Configuration error: Missing Home or Work location. Please run with --setup"])
               /\ pc' = "returned"
               /\ UNCHANGED frame
          ELSE /\ frame' = [predictions      |-> pattern_file,
                            stations_info    |-> snapshot.stations_info,
                            stations_status  |-> snapshot.stations_status,
                            now              |-> clock,
                            is_morning       |-> clock.hour < 12,
                            origin_name      |-> trip_direction(clock.hour < 12).from,
                            destination_name |-> trip_direction(clock.hour < 12).to,
                            todo             |-> location_keys(locations),
                            location_data    |-> EmptyDict]
               /\ pc' = "locate"
               /\ UNCHANGED data
    /\ UNCHANGED <<call_vars, clock, ticks, locations, pattern_file, panel>>

Fetch == FetchFrom(FeedSnapshots)

\* get_dashboard_data, lines 899-918: one pass of the loop over the locations;
\* get_prediction_for_stations reads the clock itself
LocateAndPredict ==
    /\ pc = "locate"
    /\ Len(frame.todo) > 0
    /\ LET loc_name == frame.todo[1]
           loc_data == locations[loc_name]
           nearby == find_nearby_stations(loc_data.lat, loc_data.lon, frame.stations_info,
                                          frame.stations_status, NUM_NEARBY_STATIONS)
           prediction == get_prediction_for_stations(nearby, frame.predictions, clock)
           prediction_stations == Take(nearby, NUM_PREDICTION_STATIONS)
           total_bikes == sum_field(prediction_stations, "bikes_available")
       IN  frame' = [frame EXCEPT
                        !.todo = Tail(@),
                        !.location_data =
                            (loc_name :> [loc_data |-> loc_data, nearby |-> nearby,
                                          prediction |-> prediction,
                                          total_bikes |-> total_bikes]) @@ @]
    /\ UNCHANGED <<pc, call_vars, clock, ticks, locations, pattern_file, data, panel, calls>>

\* get_dashboard_data, lines 920-974: the trip summary and the result
Summarize ==
    /\ pc = "locate"
    /\ Len(frame.todo) = 0
    /\ LET origin_data == frame.location_data[frame.origin_name]
           destination_data == frame.location_data[frame.destination_name]
           origin_prediction == origin_data.prediction
           destination_prediction == destination_data.prediction
           origin_bikes == origin_data.total_bikes
           bike_likelihood == prediction_get(origin_prediction, "bike_likelihood", "LOW")
           dock_likelihood == prediction_get(destination_prediction, "dock_likelihood", "LOW")
           net_flow_bikes  == prediction_get(origin_prediction, "net_flow_bikes", 0)
           trip_confidence == calculate_trip_confidence(bike_likelihood, dock_likelihood)
           leave_by_time   == calculate_leave_by_time(origin_bikes, net_flow_bikes,
                                                      frame.now.hour, frame.now.minute)
           message == get_trip_message(trip_confidence, bike_likelihood, dock_likelihood,
                                       leave_by_time, frame.is_morning)
           total_stations ==
               Cardinality({id \in DOMAIN frame.stations_status :
                               Get(frame.stations_status[id], "status", "") = "IN_SERVICE"})
           data_source == IF Truthy(frame.predictions)
                          THEN Get(Get(frame.predictions, "metadata", EmptyDict),
                                   "data_source", "historical data")
                          ELSE "unknown"
       \* the timestamp is kept as the datetime that isoformat() renders
       IN  data' = Some([timestamp    |-> frame.now,
                         is_morning   |-> frame.is_morning,
                         direction    |-> [from |-> frame.origin_name,
                                           to |-> frame.destination_name],
                         trip_summary |-> [confidence |-> trip_confidence,
                                           message |-> message,
                                           leave_by |-> leave_by_time,
                                           bike_likelihood |-> bike_likelihood,
                                           dock_likelihood |-> dock_likelihood],
                         locations    |-> frame.location_data,
                         meta         |-> [total_stations |-> total_stations,
                                           prediction_source |-> data_source]])
    /\ pc' = "returned"
    /\ UNCHANGED <<call_vars, clock, ticks, locations, pattern_file, frame, panel, calls>>

\* main, line 1165: console.print(build_dashboard_group(data));
\* create_trip_summary reads the clock again
Render ==
    /\ pc = "returned"
    /\ panel' = Some(build_dashboard_group(data[1], clock))
    /\ pc' = "rendered"
    /\ UNCHANGED <<call_vars, clock, ticks, locations, pattern_file, frame, data, calls>>

Next == Tick \/ Fetch \/ LocateAndPredict \/ Summarize \/ Render

Spec == Init /\ [][Next]_vars

-----------------------------------------------------------------------------
(* Trip confidence                                                         *)

Called(fn) == pc = "done" /\ args.fn = fn

\* C1: whenever the origin bike likelihood is LOW, calculate_trip_confidence
\* returns LOW, whatever the destination dock likelihood is.
C1_GatingLow ==
    (Called("calculate_trip_confidence") /\ args.bike_likelihood = "LOW") => ret = "LOW"

\* the gate decides against the weighted average: bikes LOW, docks HIGH
C1_Witness ==
    /\ Called("calculate_trip_confidence")
    /\ args.bike_likelihood = "LOW"
    /\ args.dock_likelihood = "HIGH"
    /\ ret = "LOW"

\* the table of claim C2, for bike likelihood HIGH or MEDIUM
C2_Table(bike, dock) ==
    CASE bike = "HIGH"   /\ dock = "HIGH"   -> "HIGH"
      [] bike = "HIGH"   /\ dock = "MEDIUM" -> "HIGH"
      [] bike = "HIGH"   /\ dock = "LOW"    -> "MEDIUM"
      [] bike = "MEDIUM" /\ dock = "HIGH"   -> "MEDIUM"
      [] bike = "MEDIUM" /\ dock = "MEDIUM" -> "MEDIUM"
      [] bike = "MEDIUM" /\ dock = "LOW"    -> "LOW"

\* C2: when the bike likelihood is not LOW, the confidence is the level of
\* 0.6*bike_score + 0.4*dock_score (>= 2.5 HIGH, >= 1.8 MEDIUM, else LOW),
\* which is the table (H,H)->H (H,M)->H (H,L)->M (M,H)->M (M,M)->M (M,L)->L.
C2_WeightedTable ==
    (Called("calculate_trip_confidence") /\ args.bike_likelihood # "LOW") =>
        LET b == IF args.bike_likelihood = "HIGH" THEN 30 ELSE 20
            d == IF args.dock_likelihood = "HIGH" THEN 30
                 ELSE IF args.dock_likelihood = "MEDIUM" THEN 20 ELSE 10
            \* hundredths: 0.6*b + 0.4*d
            score == 6 * b + 4 * d
            level == IF score >= 250 THEN "HIGH" ELSE IF score >= 180 THEN "MEDIUM" ELSE "LOW"
        IN  /\ ret = level
            /\ ret = C2_Table(args.bike_likelihood, args.dock_likelihood)

\* bike HIGH with dock LOW scores 2.2 and gives MEDIUM
C2_Witness ==
    /\ Called("calculate_trip_confidence")
    /\ args.bike_likelihood = "HIGH"
    /\ args.dock_likelihood = "LOW"
    /\ ret = "MEDIUM"

-----------------------------------------------------------------------------
(* The classifier, called on its own                                       *)

InitClassify ==
    /\ RunIdle
    /\ pc = "call"
    /\ args \in ClassifyArgs
    /\ ret = None

CallClassify ==
    /\ pc = "call"
    /\ args.fn = "get_prediction_for_stations"
    /\ ret' = get_prediction_for_stations(args.nearby_stations, args.predictions, args.now)
    /\ pc' = "done"
    /\ UNCHANGED <<args, run_vars>>

NextClassify == CallClassify

SpecClassify == InitClassify /\ [][NextClassify]_vars

\* a PredictionResult was returned
Classified == Called("get_prediction_for_stations") /\ ret # None

\* what the claims call the aggregated count: the sum over the K = 2 closest
Agg(field) ==
    LET st == args.nearby_stations
    IN  (IF Len(st) >= 1 THEN st[1][field] ELSE 0) + (IF Len(st) >= 2 THEN st[2][field] ELSE 0)

\* the historical net flow of the i-th nearby station at the evaluation instant
HistFlow(i) ==
    LET st  == args.nearby_stations
        pat == args.predictions.patterns
        day == DAY_NAMES[args.now.weekday + 1]
        key == Dec(args.now.hour)
    IN  IF Len(st) >= i /\ st[i].id \in DOMAIN pat
           /\ "net_flow" \in DOMAIN pat[st[i].id]
           /\ day \in DOMAIN pat[st[i].id].net_flow
           /\ key \in DOMAIN pat[st[i].id].net_flow[day]
        THEN pat[st[i].id].net_flow[day][key]
        ELSE 0

AggFlowBikes == HistFlow(1) + HistFlow(2)

\* pct >= t, with pct = count / capacity * 100 and pct = 0 at capacity 0
PctGE(count, capacity, t) ==
    IF capacity = 0 THEN 0 >= t ELSE 100 * count >= t * capacity

HighCond(count, flow) == PctGE(count, Agg("capacity"), 40) /\ flow >= -200

MediumCond(count, flow) ==
    PctGE(count, Agg("capacity"), 25) \/ (PctGE(count, Agg("capacity"), 15) /\ flow > 0)

\* C3: on each side the likelihood is HIGH iff pct >= 40 and the relevant net
\* flow (total_net_flow_bikes for bikes, its negation for docks) is >= -2.
C3_HighIff ==
    Classified =>
        /\ (ret[1].bike_likelihood = "HIGH")
               <=> HighCond(Agg("bikes_available"), AggFlowBikes)
        /\ (ret[1].dock_likelihood = "HIGH")
               <=> HighCond(Agg("docks_available"), 0 - AggFlowBikes)

\* bikes at 50% of capacity draining at 1 bike/hour are HIGH
C3_Witness ==
    /\ Classified
    /\ Agg("bikes_available") = 5 /\ Agg("capacity") = 10
    /\ AggFlowBikes = -100
    /\ ret[1].bike_likelihood = "HIGH"

\* C4: when the HIGH condition fails, the percentage-based level is MEDIUM iff
\* pct >= 25 or (pct >= 15 and net flow > 0) and LOW otherwise, and a
\* percentage-based LOW ends as MEDIUM exactly when the raw count is >= 5.
C4_MediumIff ==
    Classified =>
        /\ ~HighCond(Agg("bikes_available"), AggFlowBikes) =>
              ret[1].bike_likelihood =
                  IF MediumCond(Agg("bikes_available"), AggFlowBikes) THEN "MEDIUM"
                  ELSE IF Agg("bikes_available") >= 5 THEN "MEDIUM" ELSE "LOW"
        /\ ~HighCond(Agg("docks_available"), 0 - AggFlowBikes) =>
              ret[1].dock_likelihood =
                  IF MediumCond(Agg("docks_available"), 0 - AggFlowBikes) THEN "MEDIUM"
                  ELSE IF Agg("docks_available") >= 5 THEN "MEDIUM" ELSE "LOW"

\* pct = 15 with no inflow and 3 bikes: LOW stays LOW
C4_Witness ==
    /\ Classified
    /\ Agg("bikes_available") = 3 /\ Agg("capacity") = 20
    /\ AggFlowBikes = 0
    /\ ret[1].bike_likelihood = "LOW"

\* the level before the floor, as claims C3 and C4 define it
PctLevel(count, flow) ==
    IF HighCond(count, flow) THEN "HIGH"
    ELSE IF MediumCond(count, flow) THEN "MEDIUM"
    ELSE "LOW"

Rank(level) == IF level = "HIGH" THEN 3 ELSE IF level = "MEDIUM" THEN 2 ELSE 1

FloorHolds(before, after, count) ==
    /\ Rank(after) >= Rank(before)
    /\ before \in {"HIGH", "MEDIUM"} => after = before
    /\ before = "LOW" => (after = "MEDIUM" <=> count >= 5)
    /\ before = "LOW" => (after = "LOW" <=> count < 5)

\* C5: the floor override only raises: HIGH and MEDIUM are left alone, LOW
\* becomes MEDIUM exactly when the raw count is >= 5 and stays LOW otherwise.
C5_FloorOnlyRaises ==
    Classified =>
        /\ FloorHolds(PctLevel(Agg("bikes_available"), AggFlowBikes),
                      ret[1].bike_likelihood, Agg("bikes_available"))
        /\ FloorHolds(PctLevel(Agg("docks_available"), 0 - AggFlowBikes),
                      ret[1].dock_likelihood, Agg("docks_available"))

\* 5 bikes at 12.5% of capacity, LOW by percentage, are raised to MEDIUM
C5_Witness ==
    /\ Classified
    /\ Agg("bikes_available") = 5 /\ Agg("capacity") = 40
    /\ PctLevel(Agg("bikes_available"), AggFlowBikes) = "LOW"
    /\ ret[1].bike_likelihood = "MEDIUM"

\* C6: every PredictionResult has net_flow_docks = -net_flow_bikes.
C6_FlowsOpposite ==
    Classified => ret[1].net_flow_docks = 0 - ret[1].net_flow_bikes

\* a nonzero total that round() changes: -2.04 is reported as -2.0 and 2.0
C6_Witness ==
    /\ Classified
    /\ AggFlowBikes = -204
    /\ ret[1].net_flow_bikes = -200
    /\ ret[1].net_flow_docks = 200

-----------------------------------------------------------------------------
(* Leave-by projection                                                     *)

\* the value of a digit character
DigitVal(c) == CHOOSE d \in 0..9 : DigitChar(d) = c

IsDigit(c) == \E d \in 0..9 : DigitChar(d) = c

\* where the colon of a rendered time "H:MM AM" stands
ColonAt(t) == IF Len(t) >= 2 /\ t[2] = ":" THEN 2 ELSE 3

\* hour 1..12 without a leading zero, minute 00..59, AM or PM
Valid12h(t) ==
    LET c == ColonAt(t)
    IN  /\ Len(t) = c + 5
        /\ t[c] = ":"
        /\ \A i \in 1..(c - 1) : IsDigit(t[i])
        /\ t[1] # "0"
        /\ IsDigit(t[c + 1]) /\ IsDigit(t[c + 2])
        /\ t[c + 3] = " " /\ t[c + 4] \in {"A", "P"} /\ t[c + 5] = "M"
        /\ LET h == IF c = 2 THEN DigitVal(t[1]) ELSE 10 * DigitVal(t[1]) + DigitVal(t[2])
               m == 10 * DigitVal(t[c + 1]) + DigitVal(t[c + 2])
           IN  h \in 1..12 /\ m \in 0..59

\* the minute of the day a valid rendered time names: 12 AM is hour 0 and
\* 12 PM is hour 12
TimeOfDay(t) ==
    LET c == ColonAt(t)
        h == IF c = 2 THEN DigitVal(t[1]) ELSE 10 * DigitVal(t[1]) + DigitVal(t[2])
        m == 10 * DigitVal(t[c + 1]) + DigitVal(t[c + 2])
    IN  ((h % 12) + (IF t[c + 4] = "P" THEN 12 ELSE 0)) * 60 + m

\* (deadline - now) * loss, in minutes times hundredths of a bike per hour, for
\* the deadline now + (bikes - floor)/loss hours - 30 minutes
AheadTimesLoss(bikes, loss) == 6000 * (bikes - ABSOLUTE_BIKE_FLOOR) - LEAVE_BY_BUFFER_MINUTES * loss

\* C8: calculate_leave_by_time returns no value when net_flow_bikes >= 0, when
\* origin_bikes - floor <= 0, when the deadline is not after now, and when the
\* deadline is more than 60 minutes after now, and returns a time in every
\* other case; with 10 bikes, -2/hr is suppressed and -6/hr is returned.
C8_SuppressedIff ==
    Called("calculate_leave_by_time") =>
        LET loss  == Abs(args.net_flow_bikes)
            ahead == AheadTimesLoss(args.current_bikes, loss)
            suppressed ==
                \/ args.net_flow_bikes >= 0
                \/ args.current_bikes - ABSOLUTE_BIKE_FLOOR <= 0
                \/ ahead <= 0
                \/ ahead > 60 * loss
        IN  /\ (ret = None) <=> suppressed
            /\ (args.current_bikes = 10 /\ args.net_flow_bikes = -200) => ret = None
            /\ (args.current_bikes = 10 /\ args.net_flow_bikes = -600) => ret # None

\* 10 bikes draining at 6 an hour at 8:00: leave by 8:20
C8_Witness ==
    /\ Called("calculate_leave_by_time")
    /\ args.current_bikes = 10 /\ args.net_flow_bikes = -600
    /\ args.current_hour = 8 /\ args.current_minute = 0
    /\ ret = Some(format_leave_by(8, 20))

\* C9: a returned time is the time of day current_hour*60 + current_minute +
\* 60*(origin_bikes - floor)/|net_flow_bikes| - 30 minutes, truncated to whole
\* minutes, modulo 24 hours, rendered as a valid 12-hour time.
C9_ProjectedTime ==
    (Called("calculate_leave_by_time") /\ ret # None) =>
        LET loss == Abs(args.net_flow_bikes)
            now_minutes == args.current_hour * 60 + args.current_minute
            deadline == (now_minutes * loss + AheadTimesLoss(args.current_bikes, loss)) \div loss
        IN  /\ Valid12h(ret[1])
            /\ TimeOfDay(ret[1]) = deadline % (24 * 60)

\* every returned time is a valid 12-hour rendering
C9_ValidRendering ==
    (Called("calculate_leave_by_time") /\ ret # None) => Valid12h(ret[1])

-----------------------------------------------------------------------------
(* Message selection                                                       *)

\* the message mentions a leave-by time
MentionsLeaveBy(message) == message[1] = "Safe to bike, but leave by "

\* C10: get_trip_message takes the first that applies of: LOW -> "Consider
\* transit/walking"; HIGH -> "Safe to bike"; MEDIUM with bike HIGH and dock
\* LOW -> "Docks may be tight at {destination}", leave-by time or not; a
\* leave-by time -> "Safe to bike, but leave by {time}"; else "Safe to bike".
\* So a leave-by time is mentioned only at MEDIUM.
C10_MessagePriority ==
    Called("get_trip_message") =>
        LET destination == IF args.is_morning THEN "work" ELSE "home"
            tight == args.bike_likelihood = "HIGH" /\ args.dock_likelihood = "LOW"
        IN  /\ args.trip_confidence = "LOW" => ret = <<"Consider transit/walking">>
            /\ args.trip_confidence = "HIGH" => ret = <<"Safe to bike">>
            /\ (args.trip_confidence = "MEDIUM" /\ tight)
                   => ret = <<"Docks may be tight at ", destination>>
            /\ (args.trip_confidence = "MEDIUM" /\ ~tight /\ args.leave_by_time # None)
                   => ret = <<"Safe to bike, but leave by ", args.leave_by_time[1]>>
            /\ (args.trip_confidence = "MEDIUM" /\ ~tight /\ args.leave_by_time = None)
                   => ret = <<"Safe to bike">>
            /\ MentionsLeaveBy(ret) => args.trip_confidence = "MEDIUM"

\* MEDIUM with bikes HIGH and docks LOW: the leave-by time is passed over
C10_Witness ==
    /\ Called("get_trip_message")
    /\ args.trip_confidence = "MEDIUM"
    /\ args.bike_likelihood = "HIGH" /\ args.dock_likelihood = "LOW"
    /\ args.leave_by_time # None
    /\ args.is_morning
    /\ ret = <<"Docks may be tight at ", "work">>

-----------------------------------------------------------------------------
(* The trip summary of a dashboard run                                     *)

\* get_dashboard_data returned a TripSummary
Summarized == pc \in {"returned", "rendered"} /\ "trip_summary" \in DOMAIN data[1]

OriginData == data[1].locations[data[1].direction.from]

\* the origin's net bike flow, in hundredths of a bike per hour
OriginFlow ==
    IF OriginData.prediction # None THEN OriginData.prediction[1].net_flow_bikes ELSE 0

LeaveByPresent == Summarized /\ data[1].trip_summary.leave_by # None

\* C7: leave_by is present only when the origin's net bike flow is strictly
\* negative and the computed deadline is strictly later than now and at most
\* 60 minutes after now.
C7_WithinHorizon ==
    LeaveByPresent =>
        /\ OriginFlow < 0
        /\ AheadTimesLoss(OriginData.total_bikes, -OriginFlow) > 0
        /\ AheadTimesLoss(OriginData.total_bikes, -OriginFlow) <= 60 * (-OriginFlow)

\* C7 as stated: leave_by is present only when the origin's net bike flow is
\* strictly negative and the computed deadline is strictly later than now and
\* strictly earlier than now + 60 minutes.
C7_StrictlyWithinHorizon ==
    LeaveByPresent =>
        /\ OriginFlow < 0
        /\ AheadTimesLoss(OriginData.total_bikes, -OriginFlow) > 0
        /\ AheadTimesLoss(OriginData.total_bikes, -OriginFlow) < 60 * (-OriginFlow)

\* 8 bikes at Home draining at 2 an hour at 8:00: the deadline is 9:00, a
\* whole hour ahead, and it is reported
C7_Witness ==
    /\ LeaveByPresent
    /\ data[1].timestamp.hour = 8 /\ data[1].timestamp.minute = 0
    /\ OriginData.total_bikes = 8
    /\ OriginFlow = -200
    /\ data[1].trip_summary.leave_by = Some(format_leave_by(9, 0))

-----------------------------------------------------------------------------
(* Direction of the trip                                                   *)

\* a location's likelihood on one side, LOW when it has no prediction
LikelihoodAt(loc_name, side) ==
    LET prediction == data[1].locations[loc_name].prediction
    IN  IF prediction # None THEN prediction[1][side] ELSE "LOW"

\* C11: when the current hour is < 12 the origin is Home and the destination
\* Work, and from 12 on the origin is Work and the destination Home; the
\* TripSummary's bike likelihood is the origin's bike likelihood and its
\* dock likelihood is the destination's dock likelihood.
C11_Direction ==
    Summarized =>
        /\ data[1].timestamp.hour < 12
               => data[1].direction = [from |-> "Home", to |-> "Work"]
        /\ data[1].timestamp.hour >= 12
               => data[1].direction = [from |-> "Work", to |-> "Home"]
        /\ data[1].trip_summary.bike_likelihood
               = LikelihoodAt(data[1].direction.from, "bike_likelihood")
        /\ data[1].trip_summary.dock_likelihood
               = LikelihoodAt(data[1].direction.to, "dock_likelihood")

\* an afternoon run where Work and Home differ in bike likelihood and Work's
\* is the one reported
C11_Witness ==
    /\ Summarized
    /\ data[1].timestamp.hour >= 12
    /\ data[1].direction.from = "Work"
    /\ LikelihoodAt("Work", "bike_likelihood") # LikelihoodAt("Home", "bike_likelihood")
    /\ data[1].trip_summary.bike_likelihood = LikelihoodAt("Work", "bike_likelihood")

-----------------------------------------------------------------------------
(* Unavailable pattern data                                                *)

\* the file is absent, or the document has no "patterns" key
PatternsUnavailable == pattern_file = None \/ "patterns" \notin DOMAIN pattern_file

\* get_dashboard_data returned something else than an error
Returned == pc \in {"returned", "rendered"} /\ "error" \notin DOMAIN data[1]

\* C12: when the pattern data is unavailable, every location has no
\* prediction and the cycle still produces a TripSummary, with bike and dock
\* likelihood LOW, confidence LOW, the message "Consider transit/walking" and
\* no leave_by.
C12_NoPatternsAllLow ==
    (Returned /\ PatternsUnavailable) =>
        /\ \A loc_name \in DOMAIN data[1].locations :
               data[1].locations[loc_name].prediction = None
        /\ "trip_summary" \in DOMAIN data[1]
        /\ data[1].trip_summary.bike_likelihood = "LOW"
        /\ data[1].trip_summary.dock_likelihood = "LOW"
        /\ data[1].trip_summary.confidence = "LOW"
        /\ data[1].trip_summary.message = <<"Consider transit/walking">>
        /\ data[1].trip_summary.leave_by = None

\* a document without "patterns", 8 bikes at the origin: still LOW
C12_Witness ==
    /\ Returned
    /\ pattern_file = NoPatternsDoc
    /\ OriginData.total_bikes = 8
    /\ data[1].trip_summary.confidence = "LOW"
    /\ data[1].trip_summary.leave_by = None

-----------------------------------------------------------------------------
(* The classifier's warnings, over patterns with depletion events and      *)
(* heavy hours                                                             *)

\* Monday net flows: base at every hour but heavy at the hours given
FlowShape(base, heavy, hours) ==
    [d \in {"mon"} |-> [k \in HourKeys |-> IF k \in {hour_str(h) : h \in hours}
                                           THEN heavy ELSE base]]

\* 1, 2.5 or 5.04 bikes an hour throughout; 9 an hour at 9, at 10, at 10 and
\* 12, at 13, at 23, at 8; exactly 8 an hour at 10; 2.5 an hour but 9 at 10
WarnFlows ==
    {FlowShape(100, 100, {}), FlowShape(250, 250, {}), FlowShape(504, 504, {}),
     FlowShape(504, 900, {9}), FlowShape(504, 900, {10}), FlowShape(504, 900, {10, 12}),
     FlowShape(504, 900, {13}), FlowShape(504, 900, {23}), FlowShape(504, 800, {10}),
     FlowShape(504, 900, {8}), FlowShape(250, 900, {10})}

\* depletion events: none; on Monday at 9, 10, 12, 13, 8 or 23 o'clock with
\* severities around 15; on Tuesday only
WarnRisks ==
    {EmptyDict} \cup
    {[d \in {"mon"} |-> e] :
        e \in {[hour |-> 9, severity |-> 20], [hour |-> 10, severity |-> 16],
               [hour |-> 12, severity |-> 15], [hour |-> 12, severity |-> 16],
               [hour |-> 13, severity |-> 30], [hour |-> 8, severity |-> 30],
               [hour |-> 23, severity |-> 16]}} \cup
    {[d \in {"tue"} |-> [hour |-> 9, severity |-> 20]]}

WarnPatterns == [net_flow : WarnFlows, depletion_risk : WarnRisks]

\* the third station, beyond the prediction stations, has an event at 9 and
\* a heavy hour at 9
WarnPatternMaps ==
    {m @@ (StationIds[3] :> [net_flow |-> FlowShape(504, 900, {9}),
                             depletion_risk |-> [d \in {"mon"} |->
                                                    [hour |-> 9, severity |-> 20]]]) :
        m \in UNION {[S -> WarnPatterns] : S \in SUBSET {StationIds[1], StationIds[2]}}}

WarnNearbyLists ==
    {<<Station(1, 2, 2, 10)>>,
     <<Station(1, 2, 2, 10), Station(2, 2, 2, 10)>>,
     <<Station(1, 2, 2, 10), Station(2, 2, 2, 10), Station(3, 2, 2, 10)>>}

\* Monday 8:00, Monday 21:00, Monday 23:00 and Tuesday 8:00
WarnNows == {[weekday |-> 0, hour |-> 8, minute |-> 0],
             [weekday |-> 0, hour |-> 21, minute |-> 0],
             [weekday |-> 0, hour |-> 23, minute |-> 0],
             [weekday |-> 1, hour |-> 8, minute |-> 0]}

WarningArgs ==
    [fn : {"get_prediction_for_stations"}, nearby_stations : WarnNearbyLists,
     predictions : {[metadata |-> Metadata, patterns |-> m] : m \in WarnPatternMaps},
     now : WarnNows]

InitWarnings ==
    /\ RunIdle
    /\ pc = "call"
    /\ args \in WarningArgs
    /\ ret = None

NextWarnings == CallClassify

SpecWarnings == InitWarnings /\ [][NextWarnings]_vars

\* the prediction stations: the first K of the nearby stations
PredictionStationIndexes == 1..Min(NUM_PREDICTION_STATIONS, Len(args.nearby_stations))

DayName == DAY_NAMES[args.now.weekday + 1]

\* the i-th nearby station's pattern, an empty one when it has none
PatternOf(i) ==
    LET id == args.nearby_stations[i].id
    IN  IF id \in DOMAIN args.predictions.patterns THEN args.predictions.patterns[id]
        ELSE EmptyDict

\* the i-th station has a depletion event today, within (0, 4] hours ahead
\* and of severity > 15
QualifyingEvent(i) ==
    /\ "depletion_risk" \in DOMAIN PatternOf(i)
    /\ DayName \in DOMAIN PatternOf(i).depletion_risk
    /\ LET e == PatternOf(i).depletion_risk[DayName]
       IN  /\ 0 < e.hour - args.now.hour
           /\ e.hour - args.now.hour <= 4
           /\ e.severity > 15

QualifyingHours ==
    {PatternOf(i).depletion_risk[DayName].hour :
        i \in {j \in PredictionStationIndexes : QualifyingEvent(j)}}

\* the hour a warning message names
NamedHour(warning) == warning[1][2]

\* C13: the bike depletion warning is present iff at least one of the K
\* prediction stations has, for the current weekday, a depletion event with
\* 0 < risk_hour - current_hour <= 4 and severity > 15; when present it names
\* the smallest risk_hour among all such events.
C13_DepletionWarning ==
    Classified =>
        /\ (ret[1].bike_warning # None) <=> (QualifyingHours # {})
        /\ ret[1].bike_warning # None =>
              /\ ret[1].bike_warning[1][1] = "Often runs low by "
              /\ \E h \in QualifyingHours :
                    /\ \A g \in QualifyingHours : h <= g
                    /\ NamedHour(ret[1].bike_warning) = format_hour_12h(h)

\* the closest station's event is at 10, the second one's at 9: 9 AM is named
C13_Witness ==
    /\ Classified
    /\ Len(args.nearby_stations) >= 2
    /\ QualifyingEvent(1) /\ PatternOf(1).depletion_risk[DayName].hour = 10
    /\ QualifyingEvent(2) /\ PatternOf(2).depletion_risk[DayName].hour = 9
    /\ NamedHour(ret[1].bike_warning) = format_hour_12h(9)

-----------------------------------------------------------------------------
(* Fill warning                                                            *)

\* the i-th station's historical net flow today at hour h, 0 without history
FlowAt(i, h) ==
    LET pat == PatternOf(i)
    IN  IF /\ "net_flow" \in DOMAIN pat
           /\ DayName \in DOMAIN pat.net_flow
           /\ Dec(h) \in DOMAIN pat.net_flow[DayName]
        THEN pat.net_flow[DayName][Dec(h)]
        ELSE 0

\* the scan window: up to 4 hours after the current one, no later than 23
ScanWindow == (args.now.hour + 1)..Min(args.now.hour + 4, 23)

\* the hours of the window at which the i-th station's net flow exceeds 8
MatchingHours(i) == {h \in ScanWindow : FlowAt(i, h) > 800}

MatchingStations == {i \in PredictionStationIndexes : MatchingHours(i) # {}}

Least(S) == CHOOSE x \in S : \A y \in S : x <= y

\* C14: the fill-warning scan stops at the first match, so the dock warning
\* names the first matching hour of the first station, in distance order,
\* that has any match, whatever later stations' patterns contain.
C14_FirstStationWins ==
    (Classified /\ ret[1].dock_warning # None) =>
        /\ MatchingStations # {}
        /\ NamedHour(ret[1].dock_warning)
               = format_hour_12h(Least(MatchingHours(Least(MatchingStations))))

\* C15: when the fill warning is emitted, the hour it names is the earliest
\* hour, over all K prediction stations, of the scan window at which any of
\* those stations' net flow exceeds 8.
C15_EarliestAcrossStations ==
    (Classified /\ ret[1].dock_warning # None) =>
        /\ MatchingStations # {}
        /\ NamedHour(ret[1].dock_warning)
               = format_hour_12h(Least(UNION {MatchingHours(i) : i \in MatchingStations}))

-----------------------------------------------------------------------------
(* The locator, called on its own                                          *)

\* the largest number of stations asked for
MaxNumStations == 4

LocateIds == <<"7000", "7001", "7002", "7003">>

\* latitudes in thousandths of a degree: from latitude 4 the stations are at
\* distances 3, 1, 1, 3 and from latitude 0 at 1, 5, 3, 7
LocateLats == <<1, 5, 3, 7>>

LocateInfo(i) ==
    [station_id |-> LocateIds[i], name |-> LocateIds[i], lat |-> LocateLats[i], lon |-> 0,
     capacity |-> 10]

RECURSIVE Orders(_)
Orders(S) ==
    IF S = {} THEN {<<>>}
    ELSE UNION {{<<LocateInfo(i)>> \o rest : rest \in Orders(S \ {i})} : i \in S}

\* station_information: two to four stations in any feed order
LocateInfos == UNION {Orders(S) : S \in {T \in SUBSET (1..4) : Cardinality(T) >= 2}}

\* station_status of one station: in service, retired, or without the key
LocateStatus ==
    {[status |-> "IN_SERVICE", num_bikes_available |-> 3, num_docks_available |-> 7],
     [status |-> "END_OF_LIFE", num_bikes_available |-> 0, num_docks_available |-> 0],
     [num_bikes_available |-> 3, num_docks_available |-> 7]}

\* station_status: a station may be missing from it
LocateStatuses ==
    UNION {[{LocateIds[i] : i \in S} -> LocateStatus] : S \in SUBSET (1..4)}

LocateArgs ==
    [fn : {"find_nearby_stations"}, target_lat : {0, 4}, target_lon : {0},
     stations_info : LocateInfos, stations_status : LocateStatuses,
     num_stations : 0..MaxNumStations]

InitLocate ==
    /\ RunIdle
    /\ pc = "call"
    /\ args \in LocateArgs
    /\ ret = None

CallLocate ==
    /\ pc = "call"
    /\ args.fn = "find_nearby_stations"
    /\ ret' = find_nearby_stations(args.target_lat, args.target_lon, args.stations_info,
                                   args.stations_status, args.num_stations)
    /\ pc' = "done"
    /\ UNCHANGED <<args, run_vars>>

NextLocate == CallLocate

SpecLocate == InitLocate /\ [][NextLocate]_vars

Located == Called("find_nearby_stations")

InfoIndexes == 1..Len(args.stations_info)

\* the i-th station of the feed is in both maps and reported in service
Eligible(i) ==
    LET id == args.stations_info[i].station_id
    IN  /\ id \in DOMAIN args.stations_status
        /\ "status" \in DOMAIN args.stations_status[id]
        /\ args.stations_status[id].status = "IN_SERVICE"

EligibleIndexes == {i \in InfoIndexes : Eligible(i)}

DistanceOf(i) == 111 * Abs(args.stations_info[i].lat - args.target_lat)

ReturnedIds == {ret[j].id : j \in 1..Len(ret)}

\* C16: the list find_nearby_stations returns is sorted in non-decreasing
\* order of distance, has min(N, number of eligible stations) entries, and
\* no returned station is farther than an eligible station left out.
C16_NearestSorted ==
    Located =>
        /\ \A j \in 1..(Len(ret) - 1) : ret[j].distance <= ret[j + 1].distance
        /\ Len(ret) = Min(args.num_stations, Cardinality(EligibleIndexes))
        /\ \A j \in 1..Len(ret) :
             \A i \in EligibleIndexes :
                args.stations_info[i].station_id \notin ReturnedIds
                    => ret[j].distance <= DistanceOf(i)

\* four eligible stations listed farthest first, two of them asked for
C16_Witness ==
    /\ Located
    /\ args.num_stations = 2
    /\ Cardinality(EligibleIndexes) = 4
    /\ DistanceOf(1) > DistanceOf(4)
    /\ Len(ret) = 2
    /\ ret[1].distance = ret[2].distance

\* C17: a station is returned only if it is in both the information and the
\* status map and its status is IN_SERVICE; a station with another status or
\* none is left out, and the call still returns a list.
C17_InServiceOnly ==
    Located =>
        /\ \A j \in 1..Len(ret) :
             \E i \in EligibleIndexes : args.stations_info[i].station_id = ret[j].id
        /\ \A i \in InfoIndexes \ EligibleIndexes :
             args.stations_info[i].station_id \notin ReturnedIds
        /\ Len(ret) <= Len(args.stations_info)

\* one station retired, one without a status key, one missing from the
\* status map, and the remaining one returned
C17_Witness ==
    /\ Located
    /\ args.num_stations = 4
    /\ Len(args.stations_info) = 4
    /\ \E i \in InfoIndexes :
         /\ args.stations_info[i].station_id \in DOMAIN args.stations_status
         /\ Get(args.stations_status[args.stations_info[i].station_id], "status", "")
              = "END_OF_LIFE"
    /\ \E i \in InfoIndexes :
         /\ args.stations_info[i].station_id \in DOMAIN args.stations_status
         /\ "status" \notin DOMAIN args.stations_status[args.stations_info[i].station_id]
    /\ \E i \in InfoIndexes :
         args.stations_info[i].station_id \notin DOMAIN args.stations_status
    /\ Len(ret) = 1

-----------------------------------------------------------------------------
(* Watch mode: main without --once                                         *)

\* the number of refresh cycles followed
MaxCycles == 3

\* what the feeds answer in watch mode: every station in service with bikes
\* and docks, or every station in service and empty
WatchSnapshots ==
    {[stations_info |-> FeedInfo,
      stations_status |-> [id \in {StationIds[1], StationIds[2], StationIds[3]} |->
                              [status |-> "IN_SERVICE", num_bikes_available |-> b,
                               num_docks_available |-> 4]]] : b \in {0, 4}}

\* Monday morning and afternoon
WatchClocks ==
    {[weekday |-> 0, hour |-> 8, minute |-> 0], [weekday |-> 0, hour |-> 17, minute |-> 30]}

InitWatch ==
    /\ pc = "start"
    /\ args = None
    /\ ret = None
    /\ clock \in WatchClocks
    /\ ticks = 0
    /\ locations \in {HomeWork, HomeOnly}
    /\ pattern_file \in PatternFiles
    /\ frame = NoFrame
    /\ data = None
    /\ panel = None
    /\ calls = NoCalls

FetchWatch == FetchFrom(WatchSnapshots)

\* a watch loop that ends once an error was shown
Sleep_unless_error ==
    /\ pc = "rendered"
    /\ "error" \notin DOMAIN data[1]
    /\ calls.load_predictions < MaxCycles
    /\ clock' = minute_later(clock)
    /\ frame' = NoFrame
    /\ pc' = "start"
    /\ UNCHANGED <<call_vars, ticks, locations, pattern_file, data, panel, calls>>

\* lines 1171-1173: time.sleep(60), then the next get_dashboard_data(locations)
\* starts with fresh locals
Sleep ==
    /\ pc = "rendered"
    /\ calls.load_predictions < MaxCycles
    /\ clock' = minute_later(clock)
    /\ frame' = NoFrame
    /\ pc' = "start"
    /\ UNCHANGED <<call_vars, ticks, locations, pattern_file, data, panel, calls>>

\* between two cycles the pattern file is written, replaced or removed
FileChange ==
    /\ pc = "rendered"
    /\ pattern_file' \in PatternFiles \ {pattern_file}
    /\ UNCHANGED <<pc, call_vars, clock, ticks, locations, frame, data, panel, calls>>

\* Render stands for Live(build_dashboard_group(data)) and live.update(...) of
\* lines 1169-1175 as well: what the screen shows is replaced
NextWatch ==
    Tick \/ FetchWatch \/ LocateAndPredict \/ Summarize \/ Render \/ Sleep \/ FileChange

SpecWatch == InitWatch /\ [][NextWatch]_vars

\* C18: over all cycles of one process the pattern document is loaded at
\* most once.
C18_LoadedOnce == calls.load_predictions <= 1

\* get_dashboard_data has returned in the current cycle
CycleReturned == pc \in {"returned", "rendered"}

FetchError == [error |-> "Error fetching data"]

\* a result with the trip summary and the locations, and no error
Complete(d) == {"trip_summary", "locations"} \subseteq DOMAIN d /\ "error" \notin DOMAIN d

\* C19: a failed fetch makes get_dashboard_data return a result with the
\* error alone, after a single fetch attempt in that cycle; the watch loop
\* goes on to its next cycle after showing the error, and as soon as a later
\* cycle's fetch succeeds the result is complete and replaces the error on
\* the screen.
C19_FetchFailureRecovers ==
    /\ (CycleReturned /\ "error" \in DOMAIN data[1]) => DOMAIN data[1] = {"error"}
    /\ calls.get_station_data = calls.load_predictions
    /\ (pc = "rendered" /\ data[1] = FetchError /\ calls.load_predictions < MaxCycles)
          => ENABLED Sleep
    /\ (CycleReturned /\ "error" \notin DOMAIN data[1]) => Complete(data[1])
    /\ pc = "rendered" => ("error" \in DOMAIN panel[1] <=> "error" \in DOMAIN data[1])

\* the second cycle has returned a complete result while the screen still
\* shows the first cycle's fetch error
C19_Witness ==
    /\ pc = "returned"
    /\ calls.get_station_data = 2
    /\ panel = Some(FetchError)
    /\ Complete(data[1])

-----------------------------------------------------------------------------
(* Zero capacity                                                           *)

\* the likelihood of a count whose percentage is 0: never above the floor's
\* MEDIUM
ZeroPctLevel(count, floor) == IF count >= floor THEN "MEDIUM" ELSE "LOW"

\* C20: when the capacities of the K prediction stations add up to 0, both
\* percentages count as 0 and the classification still returns a result for
\* any bike and dock counts: neither likelihood is HIGH, and each is MEDIUM
\* by the floor alone or else LOW.
C20_ZeroCapacity ==
    (Called("get_prediction_for_stations")
        /\ Truthy(args.predictions) /\ "patterns" \in DOMAIN args.predictions
        /\ Agg("capacity") = 0) =>
        /\ ret # None
        /\ ret[1].bike_likelihood # "HIGH"
        /\ ret[1].dock_likelihood # "HIGH"
        /\ ret[1].bike_likelihood
             = ZeroPctLevel(Agg("bikes_available"), ABSOLUTE_BIKE_FLOOR)
        /\ ret[1].dock_likelihood
             = ZeroPctLevel(Agg("docks_available"), ABSOLUTE_DOCK_FLOOR)

\* two stations without capacity reporting 6 bikes and 2 docks, inflow at hand
C20_Witness ==
    /\ Classified
    /\ Len(args.nearby_stations) = 2
    /\ Agg("capacity") = 0
    /\ Agg("bikes_available") = 6
    /\ Agg("docks_available") = 2
    /\ AggFlowBikes > 0
    /\ ret[1].bike_likelihood = "MEDIUM"
    /\ ret[1].dock_likelihood = "LOW"

-----------------------------------------------------------------------------
(* Empty station list                                                      *)

\* C21: classifying an empty station list against available pattern data
\* gives net flows of 0, bike and dock likelihood LOW (all sums and both
\* percentages are 0 and the floor does not apply), and no warnings.
C21_EmptyStations ==
    (Called("get_prediction_for_stations")
        /\ Truthy(args.predictions) /\ "patterns" \in DOMAIN args.predictions
        /\ Len(args.nearby_stations) = 0) =>
        /\ ret # None
        /\ ret[1].net_flow_bikes = 0
        /\ ret[1].net_flow_docks = 0
        /\ ret[1].bike_likelihood = "LOW"
        /\ ret[1].dock_likelihood = "LOW"
        /\ ret[1].bike_warning = None
        /\ ret[1].dock_warning = None

\* no stations, while the document holds patterns with inflow and a
\* depletion event
C21_Witness ==
    /\ Classified
    /\ Len(args.nearby_stations) = 0
    /\ \E id \in DOMAIN args.predictions.patterns :
          args.predictions.patterns[id] = PeakPattern
    /\ ret[1].bike_likelihood = "LOW"

-----------------------------------------------------------------------------
(* Fill warning: when it is evaluated and what it scans                    *)

\* C22: there is no dock fill warning when total_net_flow_bikes at the
\* current hour is <= 5; above 5 the warning is present exactly when some
\* prediction station's net flow exceeds 8 at one of the hours current_hour+1
\* .. min(current_hour+4, 23) of the current weekday, and it names such an
\* hour; the current hour and hours past 23 never count, and at hour 23
\* there is never a fill warning.
C22_FillWindow ==
    Classified =>
        /\ AggFlowBikes <= 500 => ret[1].dock_warning = None
        /\ (ret[1].dock_warning # None) <=> (AggFlowBikes > 500 /\ MatchingStations # {})
        /\ ret[1].dock_warning # None =>
              /\ ret[1].dock_warning[1][1] = "Fills up around "
              /\ \E i \in MatchingStations : \E h \in MatchingHours(i) :
                    NamedHour(ret[1].dock_warning) = format_hour_12h(h)
        /\ args.now.hour = 23 => ret[1].dock_warning = None

\* at 8 the closest station's heavy hour is 8 itself and the second one's
\* is 10: the warning names 10 AM
C22_Witness ==
    /\ Classified
    /\ args.now.hour = 8
    /\ Len(args.nearby_stations) >= 2
    /\ FlowAt(1, 8) > 800
    /\ MatchingHours(2) = {10}
    /\ NamedHour(ret[1].dock_warning) = format_hour_12h(10)

-----------------------------------------------------------------------------
(* Only the K closest stations count                                       *)

\* the K closest of a location's nearby stations
ClosestK(nearby) ==
    [i \in 1..Min(NUM_PREDICTION_STATIONS, Len(nearby)) |-> nearby[i]]

\* the pattern document with the patterns of the given stations only
OnlyPatternsOf(doc, stations) ==
    [doc EXCEPT !.patterns =
        [id \in DOMAIN doc.patterns \cap {stations[i].id : i \in DOMAIN stations}
            |-> doc.patterns[id]]]

\* the instant a PredictionResult was computed at, by its day and hour
InstantOf(prediction) ==
    [weekday |-> (CHOOSE w \in 0..6 : DAY_FULL_NAMES[w + 1] = prediction.day),
     hour |-> prediction.hour, minute |-> 0]

\* C23: each location's PredictionResult is what the classifier returns for
\* its K = 2 closest stations alone, with every other station's inventory,
\* capacity and pattern left out, and the location's bike count, which the
\* leave-by projection gets for the origin, is the sum of bikes_available
\* over those K stations.
C23_OnlyClosestK ==
    Returned =>
        \A name \in DOMAIN data[1].locations :
            LET loc == data[1].locations[name]
                closest == ClosestK(loc.nearby)
            IN  /\ loc.total_bikes = sum_field(closest, "bikes_available")
                /\ loc.prediction # None =>
                      loc.prediction =
                          get_prediction_for_stations(
                              closest, OnlyPatternsOf(frame.predictions, closest),
                              InstantOf(loc.prediction[1]))

\* Monday at 8: the origin's third station holds 4 bikes and has a heavy
\* hour and a depletion event at 10, the two closest hold 4 bikes together
\* and have neither
C23_Witness ==
    /\ Summarized
    /\ frame.predictions = MixedDoc
    /\ OriginData.prediction # None
    /\ OriginData.prediction[1].hour = 8
    /\ Len(OriginData.nearby) = 3
    /\ OriginData.nearby[3].bikes_available = 4
    /\ OriginData.nearby[3].id = StationIds[3]
    /\ OriginData.total_bikes = 4
    /\ OriginData.prediction[1].bike_warning = None

-----------------------------------------------------------------------------
(* Missing history                                                         *)

\* the i-th station has no pattern, or its pattern has neither net flows nor
\* a depletion event for the current weekday
NoHistoryToday(i) ==
    \/ args.nearby_stations[i].id \notin DOMAIN args.predictions.patterns
    \/ /\ ~ ("net_flow" \in DOMAIN PatternOf(i) /\ DayName \in DOMAIN PatternOf(i).net_flow)
       /\ ~ ("depletion_risk" \in DOMAIN PatternOf(i)
                /\ DayName \in DOMAIN PatternOf(i).depletion_risk)

\* the i-th station's pattern has net flows for the current weekday but none
\* for the current hour
LacksCurrentHour(i) ==
    /\ "net_flow" \in DOMAIN PatternOf(i)
    /\ DayName \in DOMAIN PatternOf(i).net_flow
    /\ Dec(args.now.hour) \notin DOMAIN PatternOf(i).net_flow[DayName]

LacksHistory(i) == NoHistoryToday(i) \/ LacksCurrentHour(i)

\* the percentage level of a count after the floor
FlooredLevel(count, flow) ==
    IF PctLevel(count, flow) = "LOW" /\ count >= 5 THEN "MEDIUM" ELSE PctLevel(count, flow)

RECURSIVE SumOver(_, _)
SumOver(S, f) ==
    IF S = {} THEN 0
    ELSE LET i == CHOOSE j \in S : TRUE IN f[i] + SumOver(S \ {i}, f)

\* the net flow of the stations that have an entry for the current hour
KnownFlow ==
    SumOver({i \in PredictionStationIndexes : ~LacksHistory(i)},
            [i \in PredictionStationIndexes |-> FlowAt(i, args.now.hour)])

\* what every reading of C24 shares: the call returns, stations lacking
\* history add 0 to the net flow, and all K stations are counted
DefaultsApplied ==
    /\ ret # None
    /\ ret[1].net_flow_bikes = round1(KnownFlow)
    /\ ret[1].net_flow_docks = 0 - ret[1].net_flow_bikes
    /\ ret[1].bike_likelihood = FlooredLevel(Agg("bikes_available"), KnownFlow)
    /\ ret[1].dock_likelihood = FlooredLevel(Agg("docks_available"), 0 - KnownFlow)

HistoryAvailable ==
    /\ Called("get_prediction_for_stations")
    /\ Truthy(args.predictions) /\ "patterns" \in DOMAIN args.predictions

\* C24 as stated: a prediction station that is missing from the pattern
\* document, or whose pattern lacks the current weekday or the current hour,
\* contributes net flow 0 and no depletion or fill event, while its bikes,
\* docks and capacity are counted; the classification never fails.
C24_NoEventWithoutCurrentHour ==
    HistoryAvailable =>
        /\ DefaultsApplied
        /\ ret[1].bike_warning # None =>
              \E i \in PredictionStationIndexes : ~LacksHistory(i) /\ QualifyingEvent(i)
        /\ ret[1].dock_warning # None =>
              \E i \in PredictionStationIndexes : ~LacksHistory(i) /\ MatchingHours(i) # {}

\* C24, amended: a prediction station that is missing from the pattern
\* document, or whose pattern lacks the current weekday, contributes net flow
\* 0 and no depletion or fill event; one whose pattern lacks only the current
\* hour contributes net flow 0 but its depletion event and its later hours
\* still count; in both cases its bikes, docks and capacity are counted and
\* the classification never fails.
C24_MissingHistoryDefaults ==
    HistoryAvailable =>
        /\ DefaultsApplied
        /\ ret[1].bike_warning # None =>
              \E i \in PredictionStationIndexes : ~NoHistoryToday(i) /\ QualifyingEvent(i)
        /\ ret[1].dock_warning # None =>
              \E i \in PredictionStationIndexes : ~NoHistoryToday(i) /\ MatchingHours(i) # {}
        /\ (\A i \in PredictionStationIndexes : NoHistoryToday(i)) =>
              /\ ret[1].net_flow_bikes = 0
              /\ ret[1].bike_warning = None
              /\ ret[1].dock_warning = None

\* the closest station's pattern lacks hour 8 and the second one has no
\* pattern: net flow 0, 6 bikes of 10 are HIGH, and the closest station's
\* depletion event is still announced
C24_Witness ==
    /\ Classified
    /\ Len(args.nearby_stations) = 2
    /\ LacksCurrentHour(1)
    /\ args.nearby_stations[2].id \notin DOMAIN args.predictions.patterns
    /\ Agg("bikes_available") = 6 /\ Agg("capacity") = 10
    /\ ret[1].net_flow_bikes = 0
    /\ ret[1].bike_likelihood = "HIGH"
    /\ ret[1].bike_warning # None

-----------------------------------------------------------------------------
(* The pattern builder: calculate_patterns of src/data/build_predictions.py *)

\* departures[station_id].get((day, hour), 0) on a defaultdict of defaultdicts
trip_count(counts, station_id, day, hour) ==
    Get(Get(counts, station_id, EmptyDict), <<day, hour>>, 0)

\* lines 98-101 with <= : the latest hour of the minimum
track_min_latest(acc, hour, net) ==
    LET cumulative_flow == acc.cumulative_flow + net
    IN  IF cumulative_flow <= acc.min_cumulative
        THEN [cumulative_flow |-> cumulative_flow, min_cumulative |-> cumulative_flow,
              min_hour |-> hour]
        ELSE [acc EXCEPT !.cumulative_flow = cumulative_flow]

\* lines 98-101: cumulative_flow += net, and the new minimum if it is lower
track_min(acc, hour, net) ==
    LET cumulative_flow == acc.cumulative_flow + net
    IN  IF cumulative_flow < acc.min_cumulative
        THEN [cumulative_flow |-> cumulative_flow, min_cumulative |-> cumulative_flow,
              min_hour |-> hour]
        ELSE [acc EXCEPT !.cumulative_flow = cumulative_flow]

\* lines 88-101: the loop over the hours from hour on
RECURSIVE scan_hours(_, _, _, _, _, _)
scan_hours(departures, arrivals, station_id, day, hour, acc) ==
    IF hour > 23 THEN acc
    ELSE scan_hours(departures, arrivals, station_id, day, hour + 1,
                    track_min(acc, hour,
                              trip_count(arrivals, station_id, day, hour)
                                  - trip_count(departures, station_id, day, hour)))

\* the hour a key of the pattern document stands for
hour_of(key) == CHOOSE h \in Hours : hour_str(h) = key

\* lines 75-110: one station's pattern
station_pattern(departures, arrivals, station_id) ==
    LET scan == [day \in 0..6 |->
                    scan_hours(departures, arrivals, station_id, day, 0,
                               [cumulative_flow |-> 0, min_cumulative |-> 0, min_hour |-> 0])]
        risky == {day \in 0..6 : scan[day].min_cumulative < -10}
    IN  [departures |->
             [d \in {DAY_NAMES[day + 1] : day \in 0..6} |->
                 [k \in HourKeys |->
                     trip_count(departures, station_id,
                                CHOOSE day \in 0..6 : DAY_NAMES[day + 1] = d, hour_of(k))]],
         arrivals |->
             [d \in {DAY_NAMES[day + 1] : day \in 0..6} |->
                 [k \in HourKeys |->
                     trip_count(arrivals, station_id,
                                CHOOSE day \in 0..6 : DAY_NAMES[day + 1] = d, hour_of(k))]],
         net_flow |->
             [d \in {DAY_NAMES[day + 1] : day \in 0..6} |->
                 [k \in HourKeys |->
                     LET day == CHOOSE x \in 0..6 : DAY_NAMES[x + 1] = d
                     IN  trip_count(arrivals, station_id, day, hour_of(k))
                             - trip_count(departures, station_id, day, hour_of(k))]],
         depletion_risk |->
             [d \in {DAY_NAMES[day + 1] : day \in risky} |->
                 LET day == CHOOSE x \in risky : DAY_NAMES[x + 1] = d
                 IN  [hour |-> scan[day].min_hour,
                      severity |-> Abs(scan[day].min_cumulative)]]]

\* lines 69-114
calculate_patterns(departures, arrivals) ==
    [station_id \in DOMAIN departures \cup DOMAIN arrivals |->
        station_pattern(departures, arrivals, station_id)]

\* the (weekday, hour) slots with trips: Monday 0, 8, 9 and 23 o'clock and
\* Tuesday 8 o'clock
TripSlots == {<<0, 0>>, <<0, 8>>, <<0, 9>>, <<0, 23>>, <<1, 8>>}

\* the slots with arrivals: Monday 8 and 23 o'clock
ArrivalSlots == {<<0, 8>>, <<0, 23>>}

\* trips counted by process_csv_file for one station
BuilderArgs ==
    [fn : {"calculate_patterns"},
     departures : {(StationIds[1] :> c) : c \in [TripSlots -> {0, 5, 6, 11}]},
     arrivals : {EmptyDict} \cup {(StationIds[1] :> c) : c \in [ArrivalSlots -> {0, 6}]}]

InitBuilder ==
    /\ RunIdle
    /\ pc = "call"
    /\ args \in BuilderArgs
    /\ ret = None

CallBuilder ==
    /\ pc = "call"
    /\ args.fn = "calculate_patterns"
    /\ ret' = calculate_patterns(args.departures, args.arrivals)
    /\ pc' = "done"
    /\ UNCHANGED <<args, run_vars>>

NextBuilder == CallBuilder

SpecBuilder == InitBuilder /\ [][NextBuilder]_vars

\* arrivals - departures of a station at an hour of a weekday
NetTrips(id, day, h) ==
    (IF id \in DOMAIN args.arrivals /\ <<day, h>> \in DOMAIN args.arrivals[id]
     THEN args.arrivals[id][<<day, h>>] ELSE 0)
        - (IF id \in DOMAIN args.departures /\ <<day, h>> \in DOMAIN args.departures[id]
           THEN args.departures[id][<<day, h>>] ELSE 0)

\* the running sum of the net trips of a weekday up to hour h; only the
\* slots with trips add to it
RunningSum(id, day, h) ==
    SumOver({slot \in TripSlots : slot[1] = day /\ slot[2] <= h},
            [slot \in TripSlots |-> NetTrips(id, slot[1], slot[2])])

LowestSum(id, day) ==
    LET sums == {RunningSum(id, day, h) : h \in Hours}
    IN  CHOOSE m \in sums : \A x \in sums : m <= x

\* C25: per station and weekday calculate_patterns records a depletion_risk
\* entry exactly when the minimum over the hours 0..23 of the running sum of
\* (arrivals - departures) is below -10, and never more than one; its
\* severity is the magnitude of that minimum and its hour the earliest hour
\* at which the running sum reaches it.
C25_DepletionRisk ==
    Called("calculate_patterns") =>
        \A id \in DOMAIN ret : \A day \in 0..6 :
            LET risk == ret[id].depletion_risk
                d == DAY_NAMES[day + 1]
                lowest == LowestSum(id, day)
            IN  /\ d \in DOMAIN risk <=> lowest < -10
                /\ DOMAIN risk \subseteq {DAY_NAMES[x + 1] : x \in 0..6}
                /\ d \in DOMAIN risk =>
                      /\ DOMAIN risk[d] = {"hour", "severity"}
                      /\ risk[d].severity = 0 - lowest
                      /\ RunningSum(id, day, risk[d].hour) = lowest
                      /\ \A h \in Hours : RunningSum(id, day, h) = lowest => risk[d].hour <= h

\* Monday: 11 departures at 0, 6 arrivals at 8, 6 departures at 9: the
\* running sum is -11 at 0 and again from 9 on, and the entry names hour 0;
\* Tuesday's 5 departures leave no entry
C25_Witness ==
    /\ Called("calculate_patterns")
    /\ StationIds[1] \in DOMAIN args.arrivals
    /\ NetTrips(StationIds[1], 0, 0) = -11
    /\ NetTrips(StationIds[1], 0, 8) = 6
    /\ NetTrips(StationIds[1], 0, 9) = -6
    /\ NetTrips(StationIds[1], 0, 23) = 0
    /\ NetTrips(StationIds[1], 1, 8) = -5
    /\ ret[StationIds[1]].depletion_risk = [d \in {"mon"} |-> [hour |-> 0, severity |-> 11]]

-----------------------------------------------------------------------------
(* The legacy classifier: get_prediction_for_stations of src/bikes.py      *)

\* src/bikes.py lines 134-232: every nearby station is aggregated, there is
\* no floor, and the warnings name the hour as "<hour>:00"
legacy_get_prediction_for_stations(nearby_stations, predictions, now) ==
    IF ~Truthy(predictions) \/ "patterns" \notin DOMAIN predictions THEN None
    ELSE
    LET patterns == predictions["patterns"]
        day_name == DAY_NAMES[now.weekday + 1]
        day_full == DAY_FULL_NAMES[now.weekday + 1]
        hour == now.hour
        total_bikes == sum_field(nearby_stations, "bikes_available")
        total_docks == sum_field(nearby_stations, "docks_available")
        total_capacity == sum_field(nearby_stations, "capacity")
        total_net_flow_bikes == sum_net_flow(nearby_stations, patterns, day_name, hour)
        total_net_flow_docks == sum_net_flow_docks(nearby_stations, patterns, day_name, hour)
        bike_depletion_warnings ==
            collect_depletion_warnings(nearby_stations, patterns, day_name, hour)
        bike_warning ==
            IF Len(bike_depletion_warnings) > 0
            THEN Some(<<"Often runs low by ",
                        Dec(earliest_warning(bike_depletion_warnings).hour),
                        ":00 on ", day_full, "s">>)
            ELSE None
        fill_hour ==
            IF total_net_flow_bikes > 500
            THEN fill_scan(nearby_stations, patterns, day_name, hour, None)
            ELSE None
        dock_warning ==
            IF fill_hour # None
            THEN Some(<<"Fills up around ", Dec(fill_hour[1]), ":00 on ", day_full, "s">>)
            ELSE None
    IN  Some([bike_likelihood |-> pct_likelihood(total_bikes, total_capacity,
                                                 total_net_flow_bikes),
              dock_likelihood |-> pct_likelihood(total_docks, total_capacity,
                                                 total_net_flow_docks),
              bike_warning    |-> bike_warning,
              dock_warning    |-> dock_warning,
              net_flow_bikes  |-> round1(total_net_flow_bikes),
              net_flow_docks  |-> round1(total_net_flow_docks),
              day             |-> day_full,
              hour            |-> hour])

\* the same stations, patterns and instant given to both classifiers
CompareArgs ==
    [fn : {"legacy and current get_prediction_for_stations"},
     nearby_stations : {l \in NearbyLists : Len(l) <= 2},
     predictions : PredictionDocs, now : ClassifyNows]

InitCompare ==
    /\ RunIdle
    /\ pc = "call"
    /\ args \in CompareArgs
    /\ ret = None

CallLegacy ==
    /\ pc = "call"
    /\ args.fn = "legacy and current get_prediction_for_stations"
    /\ ret' = [legacy |-> legacy_get_prediction_for_stations(args.nearby_stations,
                                                             args.predictions, args.now)]
    /\ pc' = "legacy done"
    /\ UNCHANGED <<args, run_vars>>

CallCurrent ==
    /\ pc = "legacy done"
    /\ ret' = [legacy |-> ret.legacy,
               current |-> get_prediction_for_stations(args.nearby_stations,
                                                       args.predictions, args.now)]
    /\ pc' = "done"
    /\ UNCHANGED <<args, run_vars>>

NextCompare == CallLegacy \/ CallCurrent

SpecCompare == InitCompare /\ [][NextCompare]_vars

Compared == Called("legacy and current get_prediction_for_stations")

\* the current likelihood that goes with a legacy one: LOW becomes MEDIUM
\* when the raw count is at least 5, everything else is the same
FlooredFrom(legacy_level, count) ==
    IF legacy_level = "LOW" /\ count >= 5 THEN "MEDIUM" ELSE legacy_level

\* C26: on the same list of at most 2 stations, the same pattern data and
\* the same instant, the legacy and the current classifier return the same
\* net flows and the same likelihoods, except that the current one returns
\* MEDIUM where the legacy one returns LOW exactly when that side's raw
\* count is >= 5.
C26_LegacyAgreesUpToFloor ==
    Compared =>
        /\ (ret.legacy = None) <=> (ret.current = None)
        /\ ret.legacy # None =>
              /\ ret.current[1].net_flow_bikes = ret.legacy[1].net_flow_bikes
              /\ ret.current[1].net_flow_docks = ret.legacy[1].net_flow_docks
              /\ ret.current[1].bike_likelihood
                     = FlooredFrom(ret.legacy[1].bike_likelihood, Agg("bikes_available"))
              /\ ret.current[1].dock_likelihood
                     = FlooredFrom(ret.legacy[1].dock_likelihood, Agg("docks_available"))

\* 5 bikes and 4 docks at capacity 40, draining: the legacy classifier says
\* LOW for both, the current one MEDIUM for bikes and LOW for docks
C26_Witness ==
    /\ Compared
    /\ ret.legacy # None
    /\ Agg("bikes_available") = 5 /\ Agg("docks_available") = 4 /\ Agg("capacity") = 40
    /\ ret.legacy[1].net_flow_bikes = -200
    /\ ret.legacy[1].bike_likelihood = "LOW"
    /\ ret.current[1].bike_likelihood = "MEDIUM"
    /\ ret.legacy[1].dock_likelihood = "LOW"
    /\ ret.current[1].dock_likelihood = "LOW"

-----------------------------------------------------------------------------
(* Trip confidence: bounded by the bikes, and monotone                     *)

\* C27: the trip confidence is never above the origin bike likelihood in the
\* order LOW < MEDIUM < HIGH, so HIGH confidence implies HIGH bike
\* likelihood, and raising the bike or the dock likelihood with the other
\* one fixed never lowers the confidence.
C27_BoundedAndMonotone ==
    Called("calculate_trip_confidence") =>
        /\ Rank(ret) <= Rank(args.bike_likelihood)
        /\ ret = "HIGH" => args.bike_likelihood = "HIGH"
        /\ \A higher \in Levels :
              Rank(higher) >= Rank(args.bike_likelihood) =>
                  Rank(calculate_trip_confidence(higher, args.dock_likelihood)) >= Rank(ret)
        /\ \A higher \in Levels :
              Rank(higher) >= Rank(args.dock_likelihood) =>
                  Rank(calculate_trip_confidence(args.bike_likelihood, higher)) >= Rank(ret)

\* bikes MEDIUM and docks LOW give LOW; with bikes HIGH the same docks give
\* MEDIUM, with docks HIGH the same bikes give MEDIUM
C27_Witness ==
    /\ Called("calculate_trip_confidence")
    /\ args.bike_likelihood = "MEDIUM"
    /\ args.dock_likelihood = "LOW"
    /\ ret = "LOW"
    /\ calculate_trip_confidence("HIGH", "LOW") = "MEDIUM"
    /\ calculate_trip_confidence("MEDIUM", "HIGH") = "MEDIUM"

-----------------------------------------------------------------------------
(* A leave-by time goes with bikes at the origin                           *)

\* C28: in every result of get_dashboard_data, if trip_summary.leave_by is
\* present then the origin bike likelihood is MEDIUM or HIGH, never LOW: a
\* leave-by time needs more than 5 bikes at the origin's K stations and a
\* prediction with negative net flow.
C28_LeaveByNeedsBikes ==
    LeaveByPresent =>
        /\ data[1].trip_summary.bike_likelihood \in {"MEDIUM", "HIGH"}
        /\ OriginData.prediction # None
        /\ OriginData.prediction[1].bike_likelihood = data[1].trip_summary.bike_likelihood
        /\ OriginData.prediction[1].net_flow_bikes < 0
        /\ OriginData.total_bikes > ABSOLUTE_BIKE_FLOOR
        /\ OriginData.total_bikes
               = sum_field(ClosestK(OriginData.nearby), "bikes_available")

\* 8 bikes at a capacity of 50, draining: 16% is LOW by percentage, the floor
\* makes it MEDIUM, and a leave-by time is given
C28_Witness ==
    /\ LeaveByPresent
    /\ OriginData.total_bikes = 8
    /\ sum_field(ClosestK(OriginData.nearby), "capacity") = 50
    /\ OriginData.prediction[1].net_flow_bikes < 0
    /\ data[1].trip_summary.bike_likelihood = "MEDIUM"

-----------------------------------------------------------------------------
(* One evaluation instant per cycle                                        *)

\* the locations of a result that have a prediction
Predicted == {name \in DOMAIN data[1].locations : data[1].locations[name].prediction # None}

\* C29: within one cycle every component uses one evaluation instant: the
\* day and hour recorded in the origin's and the destination's
\* PredictionResult are those of the instant that chose the trip direction
\* and started the leave-by projection, whatever the wall clock does while
\* the cycle runs.
C29_OneInstant ==
    Summarized =>
        /\ data[1].is_morning = (data[1].timestamp.hour < 12)
        /\ \A name \in Predicted :
              LET prediction == data[1].locations[name].prediction[1]
              IN  /\ prediction.hour = data[1].timestamp.hour
                  /\ prediction.day = DAY_FULL_NAMES[data[1].timestamp.weekday + 1]


-----------------------------------------------------------------------------
(* The rendered trip panel against the cycle's trip_summary                 *)

PanelShown == pc = "rendered" /\ panel # None /\ "trip_panel" \in DOMAIN panel[1]

\* C30: the trip panel that build_dashboard_group renders from a cycle's data
\* shows the same trip confidence and the same message, leave-by time
\* included, as that data's trip_summary
C30_PanelMatchesSummary ==
    PanelShown =>
        /\ panel[1].trip_panel.confidence = data[1].trip_summary.confidence
        /\ panel[1].trip_panel.message = data[1].trip_summary.message

====
